---- MODULE Spec2Model ----
(***************************************************************************)
(* A model of the LLIK inverse-kinematics solver (llik.h / llik.cpp):      *)
(* the skeleton of Joints, the per-joint Configs, the chain builder and    *)
(* the FABRIK solve loop.                                                  *)
(*                                                                         *)
(* Numbers.  The code computes in F32.  The model computes the same        *)
(* formulas in fixed point: a length or a quaternion component x is the    *)
(* integer round(x * SCALE), an angle is an integer number of half         *)
(* degrees (F_PI = 360 ticks).  Every product is rescaled and rounded to   *)
(* the nearest integer, as a float operation rounds to the nearest         *)
(* representable value; only the resolution differs.                       *)
(***************************************************************************)
EXTENDS Integers, Sequences, FiniteSets, TLC

(***************************************************************************)
(* Math kernel (v3math / llquaternion / llmath of the viewer).             *)
(***************************************************************************)
SCALE == 10 * 100

Abs(a) == IF a < 0 THEN -a ELSE a

Sign(a) == IF a < 0 THEN -1 ELSE 1

\* a / b rounded to the nearest integer (b > 0)
RDiv(a, b) == Sign(a) * ((2 * Abs(a) + b) \div (2 * b))

\* (S32)(a / b): the quotient truncated toward zero (b > 0)
TruncDiv(a, b) == Sign(a) * (Abs(a) \div b)

RECURSIVE SqrtIter(_, _)
SqrtIter(n, x) ==
    LET y == (x + n \div x) \div 2
    IN  IF y >= x THEN x ELSE SqrtIter(n, y)

\* floor of the square root, by Newton's iteration
ISqrt(n) == IF n <= 0 THEN 0 ELSE IF n < 4 THEN 1 ELSE SqrtIter(n, n \div 2)

\* sqrtf: the square root rounded to the nearest integer
Sqrt(n) == LET r == ISqrt(n) IN IF n - r * r > r THEN r + 1 ELSE r

VZero == <<0, 0, 0>>

x_axis == <<SCALE, 0, 0>>

y_axis == <<0, SCALE, 0>>

z_axis == <<0, 0, SCALE>>

QIdentity == <<0, 0, 0, SCALE>>

VAdd(a, b) == <<a[1] + b[1], a[2] + b[2], a[3] + b[3]>>

VSub(a, b) == <<a[1] - b[1], a[2] - b[2], a[3] - b[3]>>

VNeg(a) == <<-a[1], -a[2], -a[3]>>

\* vector times a scalar given in SCALE units
VScale(a, s) == <<RDiv(a[1] * s, SCALE), RDiv(a[2] * s, SCALE), RDiv(a[3] * s, SCALE)>>

\* vector divided by an integer count
VDivN(a, n) == <<RDiv(a[1], n), RDiv(a[2], n), RDiv(a[3], n)>>

\* LLVector3::scaledVec: the component-wise product
scaledVec(a, s) == <<RDiv(a[1] * s[1], SCALE), RDiv(a[2] * s[2], SCALE), RDiv(a[3] * s[3], SCALE)>>

\* a * b: the dot product
VDot(a, b) == RDiv(a[1] * b[1] + a[2] * b[2] + a[3] * b[3], SCALE)

\* a % b: the cross product
VCross(a, b) ==
    <<RDiv(a[2] * b[3] - a[3] * b[2], SCALE),
      RDiv(a[3] * b[1] - a[1] * b[3], SCALE),
      RDiv(a[1] * b[2] - a[2] * b[1], SCALE)>>

\* LLVector3::length
VLength(a) == Sqrt(a[1] * a[1] + a[2] * a[2] + a[3] * a[3])

\* LLVector3::normalize: a vector of no magnitude becomes zero
VNormalizeBy(a, m) ==
    IF m = 0 THEN VZero
    ELSE <<RDiv(a[1] * SCALE, m), RDiv(a[2] * SCALE, m), RDiv(a[3] * SCALE, m)>>

VNormalize(a) == VNormalizeBy(a, VLength(a))

\* dist_vec
dist_vec(a, b) == VLength(VSub(a, b))

\* LLQuaternion::normalize: a quaternion of no magnitude becomes the identity
QNormalizeBy(q, m) ==
    IF m = 0 THEN QIdentity
    ELSE <<RDiv(q[1] * SCALE, m), RDiv(q[2] * SCALE, m),
           RDiv(q[3] * SCALE, m), RDiv(q[4] * SCALE, m)>>

QNormalize(q) == QNormalizeBy(q, Sqrt(q[1] * q[1] + q[2] * q[2] + q[3] * q[3] + q[4] * q[4]))

QAdd(a, b) == <<a[1] + b[1], a[2] + b[2], a[3] + b[3], a[4] + b[4]>>

QSub(a, b) == <<a[1] - b[1], a[2] - b[2], a[3] - b[3], a[4] - b[4]>>

\* LLQuaternion::conjugate
conjugate(q) == <<-q[1], -q[2], -q[3], q[4]>>

\* a * b on quaternions: apply a first, then b
QMul(a, b) ==
    <<RDiv(b[4] * a[1] + b[1] * a[4] + b[2] * a[3] - b[3] * a[2], SCALE),
      RDiv(b[4] * a[2] + b[2] * a[4] + b[3] * a[1] - b[1] * a[3], SCALE),
      RDiv(b[4] * a[3] + b[3] * a[4] + b[1] * a[2] - b[2] * a[1], SCALE),
      RDiv(b[4] * a[4] - b[1] * a[1] - b[2] * a[2] - b[3] * a[3], SCALE)>>

\* v * q: the vector v rotated by the unit quaternion q
VRot(a, q) ==
    LET rw == RDiv(- q[1] * a[1] - q[2] * a[2] - q[3] * a[3], SCALE)
        rx == RDiv(  q[4] * a[1] + q[2] * a[3] - q[3] * a[2], SCALE)
        ry == RDiv(  q[4] * a[2] + q[3] * a[1] - q[1] * a[3], SCALE)
        rz == RDiv(  q[4] * a[3] + q[1] * a[2] - q[2] * a[1], SCALE)
    IN  <<RDiv(- rw * q[1] + rx * q[4] - ry * q[3] + rz * q[2], SCALE),
          RDiv(- rw * q[2] + ry * q[4] - rz * q[1] + rx * q[3], SCALE),
          RDiv(- rw * q[3] + rz * q[4] - rx * q[2] + ry * q[1], SCALE)>>

\* LLQuaternion::shortestArc(a, b): the rotation taking the direction of a
\* onto the direction of b, by the half-angle construction.  The result
\* depends on the two directions only, so both are normalized first, which
\* keeps the intermediate products in range.
\* the half-angle quaternion of axis c (the cross product) and scalar part s
shortestArcHalf(c, cc, s) == QNormalizeBy(<<c[1], c[2], c[3], s>>, Sqrt(cc + s * s))

\* opposite directions: half a turn about an axis perpendicular to d = a - b
shortestArcOpposite(d, m) ==
    IF m > 0
    THEN <<RDiv(- d[2] * SCALE, m), RDiv(d[1] * SCALE, m), 0, 0>>
    ELSE <<SCALE, 0, 0, 0>>

\* on unit vectors a and b, with ab their dot and c their cross product
shortestArcUnit(a, b, ab, c) ==
    LET cc == c[1] * c[1] + c[2] * c[2] + c[3] * c[3]
    IN  IF ab * ab + cc = 0 THEN QIdentity
        ELSE IF cc > 0 THEN shortestArcHalf(c, cc, Sqrt(ab * ab + cc) + ab)
        ELSE IF ab < 0
        THEN shortestArcOpposite(VSub(a, b),
                                 Sqrt((a[1] - b[1]) * (a[1] - b[1]) + (a[2] - b[2]) * (a[2] - b[2])))
        ELSE QIdentity

shortestArcOf(a, b) == shortestArcUnit(a, b, VDot(a, b), VCross(a, b))

shortestArc(va, vb) == shortestArcOf(VNormalize(va), VNormalize(vb))

\* lerp(t, p, q) = normalize(p + t (q - p)), t in SCALE units
lerp(t, p, q) ==
    QNormalize(<<p[1] + RDiv(t * (q[1] - p[1]), SCALE),
                 p[2] + RDiv(t * (q[2] - p[2]), SCALE),
                 p[3] + RDiv(t * (q[3] - p[3]), SCALE),
                 p[4] + RDiv(t * (q[4] - p[4]), SCALE)>>)

QMaxAbs(q) ==
    LET m1 == IF Abs(q[1]) > Abs(q[2]) THEN Abs(q[1]) ELSE Abs(q[2])
        m2 == IF Abs(q[3]) > Abs(q[4]) THEN Abs(q[3]) ELSE Abs(q[4])
    IN  IF m1 > m2 THEN m1 ELSE m2

\* the default tolerance of LLQuaternion::almost_equal, in SCALE units:
\* the resolution of the fixed-point components
ALMOST_EQUAL_TOLERANCE == 1 + 1

\* LLQuaternion::almost_equal(a, b, tolerance): q and -q are the same rotation
almost_equal_tol(a, b, tol) ==
    \/ QMaxAbs(QSub(a, b)) <= tol
    \/ QMaxAbs(QAdd(a, b)) <= tol

almost_equal(a, b) == almost_equal_tol(a, b, ALMOST_EQUAL_TOLERANCE)

(***************************************************************************)
(* Angles, in half degrees.                                                *)
(***************************************************************************)
F_PI == 2 * 180

F_TWO_PI == 2 * F_PI

SinTable ==
    <<0, 9, 17, 26, 35, 44, 52, 61, 70, 78, 87, 96, 105, 113, 122, 131, 139,
      148, 156, 165, 174, 182, 191, 199, 208, 216, 225, 233, 242, 250, 259,
      267, 276, 284, 292, 301, 309, 317, 326, 334, 342, 350, 358, 367, 375,
      383, 391, 399, 407, 415, 423, 431, 438, 446, 454, 462, 469, 477, 485,
      492, 500, 508, 515, 522, 530, 537, 545, 552, 559, 566, 574, 581, 588,
      595, 602, 609, 616, 623, 629, 636, 643, 649, 656, 663, 669, 676, 682,
      688, 695, 701, 707, 713, 719, 725, 731, 737, 743, 749, 755, 760, 766,
      772, 777, 783, 788, 793, 799, 804, 809, 814, 819, 824, 829, 834, 839,
      843, 848, 853, 857, 862, 866, 870, 875, 879, 883, 887, 891, 895, 899,
      903, 906, 910, 914, 917, 921, 924, 927, 930, 934, 937, 940, 943, 946,
      948, 951, 954, 956, 959, 961, 964, 966, 968, 970, 972, 974, 976, 978,
      980, 982, 983, 985, 986, 988, 989, 990, 991, 993, 994, 995, 995, 996,
      997, 998, 998, 999, 999, 999, 1000, 1000, 1000, 1000>>

\* an angle aliased into (-F_PI, F_PI]
WrapAngle(a) ==
    LET r == a % F_TWO_PI
    IN  IF r > F_PI THEN r - F_TWO_PI ELSE r

\* std::sin of an angle in half degrees, in SCALE units
Sin(a) ==
    LET w == WrapAngle(a)
        m == Abs(w)
        f == IF m > F_PI \div 2 THEN F_PI - m ELSE m
    IN  Sign(w) * SinTable[f + 1]

\* std::cos
Cos(a) == Sin(a + F_PI \div 2)

\* the least angle a in lo..hi with x * sin(a) >= y * cos(a), by bisection
\* (x, y >= 0; the condition holds at hi)
RECURSIVE LeastAngle(_, _, _, _)
LeastAngle(y, x, lo, hi) ==
    IF lo >= hi THEN hi
    ELSE LET mid == (lo + hi) \div 2
         IN  IF x * Sin(mid) >= y * Cos(mid) THEN LeastAngle(y, x, lo, mid)
             ELSE LeastAngle(y, x, mid + 1, hi)

\* atan2 in the first quadrant (x, y >= 0, not both 0): of the two table
\* angles around the direction of (x, y), the nearer
AtanNearer(y, x, up) ==
    IF up = 0 THEN 0
    ELSE IF Abs(x * Sin(up - 1) - y * Cos(up - 1)) <= Abs(x * Sin(up) - y * Cos(up))
    THEN up - 1 ELSE up

AtanQuadrant(y, x) == AtanNearer(y, x, LeastAngle(y, x, 0, F_PI \div 2))

\* the angle a of the first quadrant reflected into the quadrant of (x, y)
AtanReflect(y, x, a) ==
    IF y >= 0 THEN (IF x >= 0 THEN a ELSE F_PI - a)
    ELSE (IF x >= 0 THEN -a ELSE a - F_PI)

\* std::atan2(y, x), in (-F_PI, F_PI]
Atan2(y, x) ==
    IF x = 0 /\ y = 0 THEN 0
    ELSE AtanReflect(y, x, AtanQuadrant(Abs(y), Abs(x)))

(***************************************************************************)
(* Flags (llik.h).  A flag byte is modelled as the set of its bits.        *)
(***************************************************************************)
CONFIG_FLAG_LOCAL_POS == "LOCAL_POS"

CONFIG_FLAG_LOCAL_ROT == "LOCAL_ROT"

CONFIG_FLAG_LOCAL_SCALE == "LOCAL_SCALE"

CONFIG_FLAG_DISABLE_CONSTRAINT == "DISABLE_CONSTRAINT"

CONFIG_FLAG_TARGET_POS == "TARGET_POS"

CONFIG_FLAG_TARGET_ROT == "TARGET_ROT"

CONFIG_FLAG_HAS_DELEGATED == "HAS_DELEGATED"

IK_FLAG_LOCAL_ROT == "IK_LOCAL_ROT"

IK_FLAG_ACTIVE == "IK_ACTIVE"

IK_FLAG_LOCAL_ROT_LOCKED == "IK_LOCAL_ROT_LOCKED"

MASK_POS == {CONFIG_FLAG_TARGET_POS, CONFIG_FLAG_LOCAL_POS}

MASK_ROT == {CONFIG_FLAG_TARGET_ROT, CONFIG_FLAG_LOCAL_ROT}

\* a null Joint::ptr_t, a null Config pointer, an absent parent id
NULL == 0 - 1

\* IK_DEFAULT_ACCEPTABLE_ERROR = 5.0e-4f, rounded up to the resolution
IK_DEFAULT_ACCEPTABLE_ERROR == 1

\* the chain limit of a Config that sets none
DEFAULT_CHAIN_LIMIT == 255

VERY_SMALL_ANGLE == 1 + 2

ONE == <<SCALE, SCALE, SCALE>>

(***************************************************************************)
(* Constraints.                                                            *)
(***************************************************************************)
NULL_CONSTRAINT == "NULL_CONSTRAINT"

ELBOW_CONSTRAINT == "ELBOW_CONSTRAINT"

\* a null Constraint::ptr_t
NoConstraint ==
    [mType |-> NULL_CONSTRAINT, mForward |-> VZero, mPivotAxis |-> VZero,
     mPivotXForward |-> VZero, mMinBend |-> 0, mMaxBend |-> 0,
     mMinTwist |-> 0, mMaxTwist |-> 0]

\* remove_multiples_of_two_pi
remove_multiples_of_two_pi(angle) == angle - F_TWO_PI * TruncDiv(angle, F_TWO_PI)

\* compute_angle_limits: the pair <<min_angle, max_angle>> it leaves
compute_angle_limits(min_angle, max_angle) ==
    LET mx0 == remove_multiples_of_two_pi(max_angle)
        mx  == IF mx0 > F_PI THEN mx0 - F_TWO_PI ELSE mx0
        mn0 == remove_multiples_of_two_pi(min_angle)
        mn  == IF mn0 > F_PI THEN mn0 - F_TWO_PI ELSE mn0
    IN  IF mn > mx THEN <<mx, mn>> ELSE <<mn, mx>>

\* compute_clamped_angle
compute_clamped_angle(angle0, min_angle, max_angle) ==
    IF angle0 > max_angle \/ angle0 < min_angle
    THEN LET invalid_bisector == max_angle + (F_TWO_PI - (max_angle - min_angle)) \div 2
             angle == angle0 - TruncDiv(angle0, F_TWO_PI) * F_TWO_PI
         IN  IF (angle > max_angle /\ angle < invalid_bisector)
                    \/ angle < invalid_bisector - F_TWO_PI
             THEN max_angle
             ELSE IF angle < min_angle \/ angle > invalid_bisector
             THEN min_angle
             ELSE angle
    ELSE angle0

\* ElbowConstraint::ElbowConstraint(forward_axis, pivot_axis, min_bend, max_bend, min_twist, max_twist)
ElbowConstraint(forward_axis, pivot_axis, min_bend, max_bend, min_twist, max_twist) ==
    LET fwd   == VNormalize(forward_axis)
        pivot == VNormalize(VCross(fwd, VCross(pivot_axis, fwd)))
        bend  == compute_angle_limits(min_bend, max_bend)
        twist == compute_angle_limits(min_twist, max_twist)
    IN  [mType |-> ELBOW_CONSTRAINT, mForward |-> fwd, mPivotAxis |-> pivot,
         mPivotXForward |-> VCross(pivot, fwd),
         mMinBend |-> bend[1], mMaxBend |-> bend[2],
         mMinTwist |-> twist[1], mMaxTwist |-> twist[2]]

(***************************************************************************)
(* Joint.  The heap of Joints is a function from the joint's id to its     *)
(* fields; a Joint::ptr_t is the id, or NULL.                              *)
(***************************************************************************)
\* LLIK::Joint::resetFromInfo
resetFromInfo(j) ==
    LET lp == scaledVec(j.info.position, j.info.scale)
    IN  [j EXCEPT !.mLocalPos = lp,
                  !.mBone = scaledVec(j.info.end, j.info.scale),
                  !.mLocalPosLength = VLength(lp),
                  !.mLocalScale = ONE]

\* LLIK::Joint::reset, on joint id of heap js
reset(js, id) ==
    LET j == [resetFromInfo(js[id]) EXCEPT !.mLocalRot = QIdentity]
    IN  IF j.mParent # NULL
        THEN [js EXCEPT ![id] =
                [j EXCEPT !.mPos = VAdd(js[j.mParent].mPos, VRot(j.mLocalPos, js[j.mParent].mRot)),
                          !.mRot = js[j.mParent].mRot]]
        ELSE [js EXCEPT ![id] = [j EXCEPT !.mPos = j.mLocalPos, !.mRot = j.mLocalRot]]

\* LLIK::Joint::Joint(info) followed by setParent(parent) and
\* setConstraint(constraint): the new Joint, not yet reset
NewJoint(info, parent, constraint) ==
    [mParent |-> parent, mChildren |-> <<>>,
     mLocalPos |-> VZero, mPos |-> VZero,
     mLocalRot |-> QIdentity, mRot |-> QIdentity,
     mLocalScale |-> ONE, mBone |-> VZero, mLocalPosLength |-> 0,
     mConstraint |-> constraint, mConfig |-> NULL, mConfigFlags |-> {},
     mIkFlags |-> IF parent = NULL THEN {IK_FLAG_LOCAL_ROT_LOCKED} ELSE {},
     info |-> info]

\* addJoint without the test for a joint_id already in the skeleton: the
\* new Joint takes the place of the old one
addJointOverDuplicate(js, sk, root_id, joint_id, parent_id, joint_info, constraint) ==
    LET same == [joints |-> js, mSkeleton |-> sk]
    IN  IF joint_id < 0 THEN same
        ELSE IF parent_id \notin DOMAIN sk /\ parent_id >= root_id THEN same
        ELSE LET parent == IF parent_id \in DOMAIN sk THEN sk[parent_id] ELSE NULL
                 js1 == [i \in DOMAIN js \cup {joint_id} |->
                            IF i = joint_id THEN NewJoint(joint_info, parent, constraint)
                            ELSE js[i]]
                 js2 == reset(js1, joint_id)
                 js3 == IF parent # NULL
                        THEN [js2 EXCEPT ![parent].mChildren = Append(@, joint_id)]
                        ELSE js2
             IN  [joints |-> js3,
                  mSkeleton |-> [i \in DOMAIN sk \cup {joint_id} |->
                                    IF i = joint_id THEN joint_id ELSE sk[i]]]

\* LLIK::Solver::addJoint: the heap and skeleton map it leaves, as
\* [joints, mSkeleton]
addJoint(js, sk, root_id, joint_id, parent_id, joint_info, constraint) ==
    LET same == [joints |-> js, mSkeleton |-> sk]
    IN  IF joint_id < 0 THEN same
        ELSE IF joint_id \in DOMAIN sk THEN same
        ELSE IF parent_id \notin DOMAIN sk /\ parent_id >= root_id THEN same
        ELSE LET parent == IF parent_id \in DOMAIN sk THEN sk[parent_id] ELSE NULL
                 js1 == [i \in DOMAIN js \cup {joint_id} |->
                            IF i = joint_id THEN NewJoint(joint_info, parent, constraint)
                            ELSE js[i]]
                 js2 == reset(js1, joint_id)
                 js3 == IF parent # NULL
                        THEN [js2 EXCEPT ![parent].mChildren = Append(@, joint_id)]
                        ELSE js2
             IN  [joints |-> js3,
                  mSkeleton |-> [i \in DOMAIN sk \cup {joint_id} |->
                                    IF i = joint_id THEN joint_id ELSE sk[i]]]

(***************************************************************************)
(* Angle and axis of a quaternion.                                         *)
(***************************************************************************)
\* sine and cosine of half an angle
SinHalf(a) == IF a % 2 = 0 THEN Sin(a \div 2) ELSE RDiv(Sin((a - 1) \div 2) + Sin((a + 1) \div 2), 2)

CosHalf(a) == IF a % 2 = 0 THEN Cos(a \div 2) ELSE RDiv(Cos((a - 1) \div 2) + Cos((a + 1) \div 2), 2)

\* LLQuaternion::getAngleAxis: <<angle, axis>>
getAngleAxisBy(q, v) ==
    IF v = 0 THEN <<0, x_axis>>
    ELSE LET flip == IF q[4] < 0 THEN -1 ELSE 1
         IN  <<2 * Atan2(flip * v, flip * q[4]),
               <<RDiv(flip * q[1] * SCALE, v), RDiv(flip * q[2] * SCALE, v),
                 RDiv(flip * q[3] * SCALE, v)>>>>

getAngleAxis(q) == getAngleAxisBy(q, Sqrt(q[1] * q[1] + q[2] * q[2] + q[3] * q[3]))

\* LLQuaternion::setAngleAxis(angle, vec)
setAngleAxisUnit(n, s, c) ==
    IF n = VZero THEN QIdentity
    ELSE QNormalize(<<RDiv(n[1] * s, SCALE), RDiv(n[2] * s, SCALE), RDiv(n[3] * s, SCALE), c>>)

setAngleAxis(angle, vec) == setAngleAxisUnit(VNormalize(vec), SinHalf(angle), CosHalf(angle))

(***************************************************************************)
(* Joint: accessors and the primitives of the FABRIK passes.  js is the    *)
(* heap of Joints, cfgs the Solver's mJointConfigs, id the Joint acted on. *)
(***************************************************************************)
hasPosTarget(j) == CONFIG_FLAG_TARGET_POS \in j.mConfigFlags

hasRotTarget(j) == CONFIG_FLAG_TARGET_ROT \in j.mConfigFlags

hasDisabledConstraint(j) == CONFIG_FLAG_DISABLE_CONSTRAINT \in j.mConfigFlags

isActive(j) == IK_FLAG_ACTIVE \in j.mIkFlags

localRotLocked(j) == IK_FLAG_LOCAL_ROT_LOCKED \in j.mIkFlags

activate(js, id) == [js EXCEPT ![id].mIkFlags = @ \cup {IK_FLAG_ACTIVE}]

\* a Config that sets nothing; also what a read through a null or dangling
\* Config pointer yields when the memory read is zero
NoConfig ==
    [mFlags |-> {}, mLocalPos |-> VZero, mLocalRot |-> QIdentity, mLocalScale |-> VZero,
     mTargetPos |-> VZero, mTargetRot |-> QIdentity, mChainLimit |-> DEFAULT_CHAIN_LIMIT]

\* *mConfig: the Config a Joint's cached pointer designates
ConfigAt(cfgs, ptr) == IF ptr \in DOMAIN cfgs THEN cfgs[ptr] ELSE NoConfig

\* LLIK::Joint::computeWorldEndPos
computeWorldEndPos(j) == VAdd(j.mPos, VRot(j.mBone, j.mRot))

\* LLIK::Joint::computePosFromParent
computePosFromParent(js, id) ==
    VAdd(js[js[id].mParent].mPos, VRot(js[id].mLocalPos, js[js[id].mParent].mRot))

\* LLIK::Joint::relaxRot
relaxRot(js, id, blend_factor) ==
    LET j  == js[id]
        lr == IF localRotLocked(j) THEN j.mLocalRot ELSE lerp(blend_factor, j.mLocalRot, QIdentity)
    IN  IF j.mParent # NULL
        THEN [js EXCEPT ![id] =
                [j EXCEPT !.mLocalRot = lr,
                          !.mRot = QNormalize(QMul(lr, js[j.mParent].mRot)),
                          !.mPos = VAdd(js[j.mParent].mPos, VRot(j.mLocalPos, js[j.mParent].mRot))]]
        ELSE [js EXCEPT ![id] = [j EXCEPT !.mLocalRot = lr, !.mRot = lr, !.mPos = j.mLocalPos]]

RECURSIVE relaxChildrenShallow(_, _, _, _)
\* a loop over mChildren that relaxes every child, active or not, and not the
\* children of the child
relaxChildrenShallow(js, id, i, blend_factor) ==
    IF i > Len(js[id].mChildren) THEN js
    ELSE relaxChildrenShallow(relaxRot(js, js[id].mChildren[i], blend_factor),
                              id, i + 1, blend_factor)

RECURSIVE relaxRotationsRecursively(_, _, _)
RECURSIVE relaxChildren(_, _, _, _)
\* the loop over mChildren of relaxRotationsRecursively, from child index i
relaxChildren(js, id, i, blend_factor) ==
    IF i > Len(js[id].mChildren) THEN js
    ELSE LET child == js[id].mChildren[i]
         IN  relaxChildren(IF isActive(js[child])
                           THEN relaxRotationsRecursively(js, child, blend_factor)
                           ELSE js,
                           id, i + 1, blend_factor)

\* LLIK::Joint::relaxRotationsRecursively
relaxRotationsRecursively(js, id, blend_factor) ==
    LET bf == IF blend_factor < 0 THEN 0 ELSE IF blend_factor > SCALE THEN SCALE ELSE blend_factor
    IN  relaxChildren(relaxRot(js, id, bf), id, 1, bf)

RECURSIVE resetRecursively(_, _)
RECURSIVE resetChildren(_, _, _)
resetChildren(js, id, i) ==
    IF i > Len(js[id].mChildren) THEN js
    ELSE resetChildren(resetRecursively(js, js[id].mChildren[i]), id, i + 1)

\* LLIK::Joint::resetRecursively
resetRecursively(js, id) == resetChildren(reset(js, id), id, 1)

\* LLIK::Joint::updateLocalRot(false): the heap it leaves and its return
\* value, as [js, r]
updateLocalRotUnenforcedTo(js, id, new_local_rot) ==
    IF ~almost_equal(new_local_rot, js[id].mLocalRot)
    THEN IF localRotLocked(js[id])
         THEN [js |-> js, r |-> TRUE]
         ELSE [js |-> [js EXCEPT ![id].mLocalRot = new_local_rot], r |-> FALSE]
    ELSE [js |-> js, r |-> FALSE]

updateLocalRotUnenforced(js, id) ==
    updateLocalRotUnenforcedTo(js, id,
                               QNormalize(QMul(js[id].mRot, conjugate(js[js[id].mParent].mRot))))

\* LLIK::Joint::setLocalRot
setLocalRot(js, id, new_local_rot) ==
    IF ~localRotLocked(js[id]) THEN [js EXCEPT ![id].mLocalRot = new_local_rot] ELSE js

(***************************************************************************)
(* LLIK::ElbowConstraint::computeAdjustedLocalRot, in the order of the     *)
(* code: forward is swung into the hinge plane, the twist is measured and  *)
(* clamped, the bend is measured and clamped.                              *)
(***************************************************************************)
\* the end: the bend is clamped and the rotation normalized
ElbowRotBent(c, forward, adjusted_local_rot, bend, new_bend) ==
    QNormalize(IF new_bend # bend
               THEN QMul(adjusted_local_rot,
                         shortestArc(forward,
                                     VAdd(VScale(c.mForward, Cos(new_bend)),
                                          VScale(c.mPivotXForward, Sin(new_bend)))))
               ELSE adjusted_local_rot)

\* measure bend
ElbowRotBend(c, forward, adjusted_local_rot, new_forward) ==
    \* bend and new_bend
    LET bend == Atan2(VDot(new_forward, c.mPivotXForward), VDot(new_forward, c.mForward))
    IN  ElbowRotBent(c, forward, adjusted_local_rot, bend,
                     compute_clamped_angle(bend, c.mMinBend, c.mMaxBend))

\* adjust twist: the rotation that brings twisted_pivot to its clamped place
ElbowRotUntwisted(c, adjusted_local_rot, twisted_pivot, new_forward, new_twist) ==
    QMul(adjusted_local_rot,
         shortestArc(twisted_pivot,
                     VSub(VScale(c.mPivotAxis, Cos(new_twist)),
                          VScale(VCross(c.mPivotAxis, new_forward), Sin(new_twist)))))

ElbowRotUntwist(c, forward, untwisted) ==
    ElbowRotBend(c, forward, untwisted, VRot(c.mForward, untwisted))

ElbowRotTwisted(c, forward, adjusted_local_rot, twisted_pivot, new_forward, twist, new_twist) ==
    IF new_twist # twist
    THEN ElbowRotUntwist(c, forward,
                         ElbowRotUntwisted(c, adjusted_local_rot, twisted_pivot, new_forward,
                                           new_twist))
    ELSE ElbowRotBend(c, forward, adjusted_local_rot, new_forward)

\* measure twist
ElbowRotTwist(c, forward, adjusted_local_rot, twisted_pivot, twist) ==
    ElbowRotTwisted(c, forward, adjusted_local_rot, twisted_pivot,
                    VRot(c.mForward, adjusted_local_rot), twist,
                    compute_clamped_angle(twist, c.mMinTwist, c.mMaxTwist))

ElbowRotPivot(c, forward, adjusted_local_rot, twisted_pivot) ==
    ElbowRotTwist(c, forward, adjusted_local_rot, twisted_pivot,
                  Atan2(VDot(VRot(c.mPivotXForward, adjusted_local_rot), c.mPivotAxis),
                        VDot(twisted_pivot, c.mPivotAxis)))

ElbowRotSwung(c, forward, adjusted_local_rot) ==
    ElbowRotPivot(c, forward, adjusted_local_rot, VRot(c.mPivotAxis, adjusted_local_rot))

\* forward moved back into the hinge plane
ElbowRotForward(c, joint_local_rot, forward) ==
    ElbowRotSwung(c, forward,
                  QMul(joint_local_rot,
                       shortestArc(forward,
                                   VSub(forward,
                                        VScale(c.mPivotAxis, VDot(forward, c.mPivotAxis))))))

\* LLIK::ElbowConstraint::computeAdjustedLocalRot
ElbowComputeAdjustedLocalRot(c, joint_local_rot) ==
    ElbowRotForward(c, joint_local_rot, VRot(c.mForward, joint_local_rot))

(***************************************************************************)
(* LLIK::ElbowConstraint::enforce on the elbow Joint id, which has a       *)
(* parent (the shoulder), in the order of the code: the directions, the    *)
(* twist, its clamp, the back-pressure on the shoulder, the local          *)
(* rotations.                                                              *)
(***************************************************************************)
\* lower_pivot, upper_pivot, lower_arm and the cross product of the arms
ElbowDirections(js, id) ==
    LET c == js[id].mConstraint
        sid == js[id].mParent
        lower_arm == VNormalize(VSub(computeWorldEndPos(js[id]), js[id].mPos))
        upper_arm == VNormalize(VSub(js[id].mPos, js[sid].mPos))
    IN  [lower_pivot |-> VRot(c.mPivotAxis, js[id].mRot),
         upper_pivot |-> VRot(c.mPivotAxis, js[sid].mRot),
         lower_arm |-> lower_arm,
         cross |-> VCross(upper_arm, lower_arm)]

\* bend_pivot: the upper pivot when the arm is straight
ElbowBendPivot(d) == IF VLength(d.cross) = 0 THEN d.upper_pivot ELSE VNormalize(d.cross)

\* the twist angle, signed by the side of lower_arm the axis aa[2] is on
ElbowTwistAngle(aa, lower_arm) == IF VDot(aa[2], lower_arm) < 0 THEN -aa[1] ELSE aa[1]

\* the elbow untwisted from angle to new_twist
ElbowTwist(js, id, lower_arm, angle, new_twist) ==
    IF new_twist # angle
    THEN [js EXCEPT ![id].mRot =
            QNormalize(QMul(js[id].mRot, setAngleAxis(new_twist - angle, lower_arm)))]
    ELSE js

\* the shoulder's local rotation after its world rotation was set
ElbowShoulderLocalRot(js, sid) ==
    IF js[sid].mParent # NULL THEN updateLocalRotUnenforced(js, sid).js
    ELSE setLocalRot(js, sid, js[sid].mRot)

\* the back-pressure: the shoulder turned by adjustment
ElbowBackPressure(js, sid, adjustment) ==
    IF ~almost_equal_tol(adjustment, QIdentity, VERY_SMALL_ANGLE)
    THEN ElbowShoulderLocalRot([js EXCEPT ![sid].mRot = QNormalize(QMul(js[sid].mRot, adjustment))],
                               sid)
    ELSE js

\* the end of enforce, as [js, r]
ElbowUpdateLocalRot(js, id, something_changed) ==
    IF something_changed
    THEN [js |-> updateLocalRotUnenforced(js, id).js, r |-> TRUE]
    ELSE [js |-> js, r |-> FALSE]

ElbowAdjust(js, id, lower_arm, angle, new_twist, adjustment) ==
    ElbowUpdateLocalRot(
        ElbowBackPressure(ElbowTwist(js, id, lower_arm, angle, new_twist),
                          js[id].mParent, adjustment),
        id,
        new_twist # angle \/ ~almost_equal_tol(adjustment, QIdentity, VERY_SMALL_ANGLE))

ElbowClamp(js, id, d, bend_pivot, angle) ==
    ElbowAdjust(js, id, d.lower_arm, angle,
                compute_clamped_angle(angle, js[id].mConstraint.mMinTwist,
                                      js[id].mConstraint.mMaxTwist),
                shortestArc(d.upper_pivot, bend_pivot))

ElbowBend(js, id, d, bend_pivot) ==
    ElbowClamp(js, id, d, bend_pivot,
               ElbowTwistAngle(getAngleAxis(shortestArc(bend_pivot, d.lower_pivot)), d.lower_arm))

\* LLIK::ElbowConstraint::enforce, as [js, r]
ElbowEnforceFrom(js, id, d) == ElbowBend(js, id, d, ElbowBendPivot(d))

ElbowEnforce(js, id) == ElbowEnforceFrom(js, id, ElbowDirections(js, id))

\* LLIK::Joint::enforceConstraint, as [js, r].  A Joint whose local rotation
\* is being updated has a parent, so ElbowConstraint::enforce takes its
\* back-pressure branch.
enforceConstraint(js, id) ==
    IF /\ ~localRotLocked(js[id])
       /\ js[id].mConstraint.mType # NULL_CONSTRAINT
       /\ ~hasDisabledConstraint(js[id])
    THEN ElbowEnforce(js, id)
    ELSE [js |-> js, r |-> FALSE]

\* LLIK::Joint::updateLocalRot(enforce_constraints), as [js, r]
updateLocalRotTo(js, id, new_local_rot, enforce_constraints) ==
    IF ~almost_equal(new_local_rot, js[id].mLocalRot)
    THEN IF localRotLocked(js[id])
         THEN [js |-> js, r |-> TRUE]
         ELSE IF enforce_constraints
         THEN enforceConstraint([js EXCEPT ![id].mLocalRot = new_local_rot], id)
         ELSE [js |-> [js EXCEPT ![id].mLocalRot = new_local_rot], r |-> FALSE]
    ELSE [js |-> js, r |-> FALSE]

updateLocalRot(js, id, enforce_constraints) ==
    updateLocalRotTo(js, id,
                     QNormalize(QMul(js[id].mRot, conjugate(js[js[id].mParent].mRot))),
                     enforce_constraints)

\* applyLocalRot on a Joint with a rotation target: mRot becomes the blend
\* rot, and mLocalRot follows it
applyBlendedRot(js, id, rot) ==
    [js EXCEPT ![id].mRot = rot,
               ![id].mLocalRot = QNormalize(QMul(rot, conjugate(js[js[id].mParent].mRot)))]

\* LLIK::Joint::applyLocalRot
applyLocalRot(js, cfgs, id) ==
    LET j == js[id]
    IN  IF j.mParent # NULL
        THEN IF hasRotTarget(j)
             THEN applyBlendedRot(js, id,
                                  lerp(SCALE \div 2, ConfigAt(cfgs, j.mConfig).mTargetRot,
                                       QMul(j.mLocalRot, js[j.mParent].mRot)))
             ELSE [js EXCEPT ![id].mRot = QNormalize(QMul(j.mLocalRot, js[j.mParent].mRot))]
        ELSE [js EXCEPT ![id].mRot = j.mLocalRot]

\* LLIK::Joint::collectTargetPositions: the sequence of
\* <<local_target, world_target>> pairs
RECURSIVE collectChildTargets(_, _, _)
collectChildTargets(js, id, i) ==
    IF i > Len(js[id].mChildren) THEN <<>>
    ELSE LET child == js[js[id].mChildren[i]]
         IN  (IF isActive(child) THEN <<<<child.mLocalPos, child.mPos>>>> ELSE <<>>)
                 \o collectChildTargets(js, id, i + 1)

collectTargetPositions(js, cfgs, id) ==
    IF hasPosTarget(js[id])
    THEN <<<<js[id].mBone, ConfigAt(cfgs, js[id].mConfig).mTargetPos>>>>
    ELSE collectChildTargets(js, id, 1)

\* avg_adjustment with adjustment added on its hemisphere
alignedSum(avg_adjustment, adjustment) ==
    IF adjustment[4] < 0 THEN QSub(avg_adjustment, adjustment)
    ELSE QAdd(avg_adjustment, adjustment)

\* the sum of the hemisphere-aligned adjustments of updateEndInward, where
\* each new bone is scaled to the length of its local target
RECURSIVE sumAdjustmentsInward(_, _, _, _)
sumAdjustmentsInward(targets, pos, rot, i) ==
    IF i > Len(targets) THEN <<0, 0, 0, 0>>
    ELSE alignedSum(sumAdjustmentsInward(targets, pos, rot, i + 1),
                    shortestArc(VRot(targets[i][1], rot),
                                VScale(VNormalize(VSub(targets[i][2], pos)),
                                       VLength(targets[i][1]))))

\* the sum of the new positions of updateEndInward
RECURSIVE sumNewPos(_, _, _)
sumNewPos(targets, pos, i) ==
    IF i > Len(targets) THEN VZero
    ELSE LET new_bone == VScale(VNormalize(VSub(targets[i][2], pos)), VLength(targets[i][1]))
         IN  VAdd(VSub(targets[i][2], new_bone), sumNewPos(targets, pos, i + 1))

\* the sum of the hemisphere-aligned adjustments of updateEndOutward
RECURSIVE sumAdjustmentsOutward(_, _, _, _)
sumAdjustmentsOutward(targets, pos, rot, i) ==
    IF i > Len(targets) THEN <<0, 0, 0, 0>>
    ELSE alignedSum(sumAdjustmentsOutward(targets, pos, rot, i + 1),
                    shortestArc(VRot(targets[i][1], rot), VSub(targets[i][2], pos)))

\* the loop of updateEndInward that updates the local rotation of every
\* active child, from child index i, as [js, r]
RECURSIVE updateActiveChildren(_, _, _, _)
RECURSIVE updateActiveChildrenAfter(_, _, _, _)
\* something_changed accumulated over two results u and v, with v's heap
eitherChanged(u, v) == [js |-> v.js, r |-> u.r \/ v.r]

updateActiveChildren(js, id, i, enforce_constraints) ==
    IF i > Len(js[id].mChildren) THEN [js |-> js, r |-> FALSE]
    ELSE LET child == js[id].mChildren[i]
         IN  IF isActive(js[child])
             THEN updateActiveChildrenAfter(updateLocalRot(js, child, enforce_constraints),
                                            id, i + 1, enforce_constraints)
             ELSE updateActiveChildren(js, id, i + 1, enforce_constraints)

\* the loop of updateEndInward that averages the world rotation over all
\* children: the running avg_rot is normalized after each child, and mRot
\* is the last value
RECURSIVE averageChildRots(_, _, _, _)
averageChildRots(js, id, i, avg_rot) ==
    IF i > Len(js[id].mChildren) THEN avg_rot
    ELSE averageChildRots(js, id, i + 1,
                          QNormalize(alignedSum(avg_rot,
                                                QMul(conjugate(js[js[id].mChildren[i]].mLocalRot),
                                                     js[js[id].mChildren[i]].mRot))))

\* the rest of the loop after a child was updated with result u
updateActiveChildrenAfter(u, id, i, enforce_constraints) ==
    eitherChanged(u, updateActiveChildren(u.js, id, i, enforce_constraints))

\* the end of updateEndInward, after the children were updated with result u
updateEndInwardAfter(u, id) ==
    IF u.r /\ Len(u.js[id].mChildren) > 0
    THEN [u.js EXCEPT ![id].mRot = averageChildRots(u.js, id, 1, <<0, 0, 0, 0>>)]
    ELSE u.js

\* if (updateLocalRot(enforce_constraints)) applyLocalRot(), where u is the
\* result of updateLocalRot
applyLocalRotIf(u, cfgs, id) == IF u.r THEN applyLocalRot(u.js, cfgs, id) ELSE u.js

\* LLIK::Joint::updateEndInward
updateEndInward(js, cfgs, id, enforce_constraints) ==
    LET j == js[id]
        config == ConfigAt(cfgs, j.mConfig)
        targets == collectTargetPositions(js, cfgs, id)
        num_targets == Len(targets)
        bone_dir == VNormalize(VSub(targets[1][2], j.mPos))
        avg == QNormalize(sumAdjustmentsInward(targets, j.mPos, j.mRot, 1))
        j1 == IF hasRotTarget(j)
              THEN [j EXCEPT !.mRot = config.mTargetRot,
                             !.mPos = IF hasPosTarget(j)
                                      THEN VSub(config.mTargetPos, VRot(j.mBone, config.mTargetRot))
                                      ELSE @]
              ELSE IF num_targets = 1
              THEN [j EXCEPT !.mPos = VSub(targets[1][2], VScale(bone_dir, VLength(targets[1][1]))),
                             !.mRot = QNormalize(QMul(j.mRot,
                                         shortestArc(VRot(targets[1][1], j.mRot), bone_dir)))]
              ELSE [j EXCEPT !.mPos = IF j.mParent # NULL /\ isActive(js[j.mParent]) /\ num_targets > 0
                                      THEN VDivN(sumNewPos(targets, j.mPos, 1), num_targets)
                                      ELSE @,
                             !.mRot = QNormalize(QMul(j.mRot, avg))]
    IN  updateEndInwardAfter(
            updateActiveChildren([js EXCEPT ![id] = j1], id, 1, enforce_constraints), id)

\* LLIK::Joint::updateEndOutward
updateEndOutward(js, cfgs, id, enforce_constraints) ==
    LET j == js[id]
        config == ConfigAt(cfgs, j.mConfig)
        pos == computePosFromParent(js, id)
        targets == collectTargetPositions(js, cfgs, id)
        num_targets == Len(targets)
    IN  IF localRotLocked(j)
        THEN [js EXCEPT ![id].mPos = pos, ![id].mRot = QMul(j.mLocalRot, js[j.mParent].mRot)]
        ELSE LET j1 == IF hasRotTarget(j)
                       THEN [j EXCEPT !.mRot = config.mTargetRot,
                                      !.mPos = IF hasPosTarget(j)
                                               THEN VSub(config.mTargetPos,
                                                         VRot(j.mBone, config.mTargetRot))
                                               ELSE pos]
                       ELSE IF num_targets = 1
                       THEN [j EXCEPT !.mPos = pos,
                                      !.mRot = QNormalize(QMul(j.mRot,
                                                  shortestArc(VRot(targets[1][1], j.mRot),
                                                              VSub(targets[1][2], pos))))]
                       ELSE [j EXCEPT !.mPos = pos,
                                      !.mRot = QNormalize(QMul(j.mRot,
                                                  QNormalize(sumAdjustmentsOutward(targets, pos, j.mRot, 1))))]
             IN  applyLocalRotIf(updateLocalRot([js EXCEPT ![id] = j1], id, enforce_constraints),
                                 cfgs, id)

\* the end of updateInward, where u is the result of child->updateLocalRot:
\* when the child's local rotation could not follow, this Joint is
\* re-derived from the child
updateInwardAfter(u, id, child) ==
    IF u.r
    THEN LET c1 == u.js[child]
             rot1 == QNormalize(QMul(conjugate(c1.mLocalRot), c1.mRot))
         IN  [u.js EXCEPT ![id].mRot = rot1,
                          ![id].mPos = VSub(c1.mPos, VRot(c1.mLocalPos, rot1))]
    ELSE u.js

\* LLIK::Joint::updateInward(child, enforce_constraints)
updateInward(js, id, child, enforce_constraints) ==
    LET j == js[id]
        c == js[child]
        bone_dir == VNormalize(VSub(c.mPos, j.mPos))
        pos == VSub(c.mPos, VScale(bone_dir, c.mLocalPosLength))
        rot == QNormalize(QMul(j.mRot, shortestArc(VRot(c.mLocalPos, j.mRot), bone_dir)))
    IN  updateInwardAfter(
            updateLocalRot([js EXCEPT ![id].mPos = pos, ![id].mRot = rot], child, enforce_constraints),
            id, child)

\* LLIK::Joint::updateOutward
updateOutward(js, cfgs, id, enforce_constraints) ==
    LET j == js[id]
        old_end_pos == VAdd(j.mPos, VRot(j.mBone, j.mRot))
        pos == computePosFromParent(js, id)
        dQ == shortestArc(VRot(j.mBone, j.mRot), VSub(old_end_pos, pos))
    IN  applyLocalRotIf(updateLocalRot([js EXCEPT ![id].mPos = pos,
                                                  ![id].mRot = QNormalize(QMul(j.mRot, dQ))],
                                       id, enforce_constraints),
                        cfgs, id)

\* LLIK::Joint::updateChildLocalRots, from child index i
RECURSIVE updateChildLocalRots(_, _, _)
updateChildLocalRots(js, id, i) ==
    IF i > Len(js[id].mChildren) THEN js
    ELSE LET child == js[id].mChildren[i]
         IN  updateChildLocalRots(IF isActive(js[child])
                                  THEN updateLocalRotUnenforced(js, child).js
                                  ELSE js,
                                  id, i + 1)

\* the forward traversal of executeFabrikInward, from chain index i
RECURSIVE inwardFrom(_, _, _, _)
inwardFrom(js, chain, i, enforce_constraints) ==
    IF i >= Len(chain) THEN js
    ELSE inwardFrom(updateInward(js, chain[i], chain[i - 1], enforce_constraints),
                    chain, i + 1, enforce_constraints)

\* LLIK::Solver::executeFabrikInward
executeFabrikInward(js, cfgs, chain, enforce_constraints) ==
    inwardFrom(updateEndInward(js, cfgs, chain[1], enforce_constraints), chain, 2, enforce_constraints)

\* the reverse traversal of executeFabrikOutward, from chain index i
RECURSIVE outwardFrom(_, _, _, _, _)
outwardFrom(js, cfgs, chain, i, enforce_constraints) ==
    IF i <= 1 THEN js
    ELSE outwardFrom(updateOutward(js, cfgs, chain[i], enforce_constraints),
                     cfgs, chain, i - 1, enforce_constraints)

\* LLIK::Solver::executeFabrikOutward
executeFabrikOutward(js, cfgs, chain, enforce_constraints) ==
    updateEndOutward(outwardFrom(js, cfgs, chain, Len(chain) - 1, enforce_constraints),
                     cfgs, chain[1], enforce_constraints)

(***************************************************************************)
(* Joint: the setters used while the chains are rebuilt.                   *)
(***************************************************************************)
\* LLIK::Joint::setConfig: the pointer kept is the key of the Config
setConfig(js, cfgs, id, key) ==
    [js EXCEPT ![id].mConfig = key, ![id].mConfigFlags = cfgs[key].mFlags]

\* LLIK::Joint::resetFlags
resetFlags(js, id) ==
    [js EXCEPT ![id].mConfig = NULL, ![id].mConfigFlags = {},
               ![id].mIkFlags = IF js[id].mParent # NULL THEN {} ELSE {IK_FLAG_LOCAL_ROT_LOCKED}]

\* LLIK::Joint::lockLocalRot
lockLocalRot(js, id, local_rot) ==
    [js EXCEPT ![id].mLocalRot = local_rot,
               ![id].mIkFlags = @ \cup {IK_FLAG_LOCAL_ROT_LOCKED, IK_FLAG_ACTIVE},
               ![id].mRot = IF js[id].mParent = NULL THEN local_rot ELSE @]

\* LLIK::Joint::setLocalPos
setLocalPos(js, id, pos) ==
    LET lp == scaledVec(pos, js[id].mLocalScale)
    IN  [js EXCEPT ![id].mLocalPos = lp, ![id].mLocalPosLength = VLength(lp),
                   ![id].mPos = IF js[id].mParent = NULL THEN lp ELSE @]

\* LLIK::Joint::setLocalScale
setLocalScale(js, id, scale) ==
    LET old == js[id].mLocalScale
        re_scale == [i \in 1..3 |-> IF old[i] > 0 THEN RDiv(scale[i] * SCALE, old[i]) ELSE 0]
        lp == scaledVec(js[id].mLocalPos, re_scale)
    IN  [js EXCEPT ![id].mLocalScale = scale,
                   ![id].mBone = scaledVec(@, re_scale),
                   ![id].mLocalPos = lp, ![id].mLocalPosLength = VLength(lp)]

\* LLIK::Joint::getSingleActiveChild: the only active child, else NULL
getSingleActiveChild(js, id) ==
    LET act == {i \in 1..Len(js[id].mChildren) : isActive(js[js[id].mChildren[i]])}
    IN  IF Cardinality(act) = 1 THEN js[id].mChildren[CHOOSE i \in act : TRUE] ELSE NULL

(***************************************************************************)
(* Solver.  A Solver value S is the record of its members: joints (the     *)
(* heap), mSkeleton, mJointConfigs, mChainMap, mActiveRoots,               *)
(* mActiveJoints, mRootID, mSubBaseIds, mSubRootIds; fault records that    *)
(* the code went through a null or dangling pointer on the way.            *)
(***************************************************************************)
\* the least and the greatest element of a non-empty set of integers
SetMin(A) == CHOOSE a \in A : \A b \in A : a <= b

SetMax(A) == CHOOSE a \in A : \A b \in A : a >= b

\* LLIK::Solver::isSubBase
isSubBase(S, joint_id) == joint_id \in S.mSubBaseIds

\* LLIK::Solver::isSubRoot
isSubRoot(S, joint_id) == S.mSubRootIds # {} /\ joint_id \in S.mSubRootIds

\* the while loop of buildChain, as [joints, chain, sub_bases]
RECURSIVE walkChain(_, _, _, _, _)
walkChain(S, js, joint, chain, chain_length) ==
    IF joint = NULL \/ Len(chain) >= chain_length
    THEN [joints |-> js, chain |-> chain, sub_bases |-> {}]
    ELSE LET chain1 == Append(chain, joint)
             js1 == activate(js, joint)
         IN  IF isSubRoot(S, joint) \/ joint = S.mRootID \/ hasPosTarget(js1[joint])
             THEN [joints |-> js1, chain |-> chain1, sub_bases |-> {}]
             ELSE IF (S.mSubBaseIds = {} /\ Len(js1[joint].mChildren) > 1) \/ isSubBase(S, joint)
             THEN [joints |-> js1, chain |-> chain1, sub_bases |-> {joint}]
             ELSE walkChain(S, js1, js1[joint].mParent, chain1, chain_length)

\* LLIK::Solver::buildChain(joint, chain, sub_bases, chain_length) on an
\* empty chain, as [joints, chain, sub_bases]: the sub-base it found, if any
buildChain(S, joint, chain_length) ==
    walkChain(S, activate(S.joints, joint), S.joints[joint].mParent, <<joint>>, chain_length)

\* mChainMap[key] = chain
PutChain(map, key, chain) ==
    [k \in DOMAIN map \cup {key} |-> IF k = key THEN chain ELSE map[k]]

\* the body of the loop of rebuildAllChains over mJointConfigs, for the
\* root Joint
configureRoot(S, joint, config) ==
    LET flags == config.mFlags
        q == IF CONFIG_FLAG_LOCAL_ROT \in flags THEN config.mLocalRot ELSE config.mTargetRot
        p == IF CONFIG_FLAG_LOCAL_POS \in flags THEN config.mLocalPos ELSE config.mTargetPos
        js1 == IF flags \cap MASK_ROT # {} THEN lockLocalRot(S.joints, joint, q) ELSE S.joints
        js2 == IF flags \cap MASK_POS # {} THEN activate(setLocalPos(js1, joint, p), joint) ELSE js1
        js3 == IF CONFIG_FLAG_LOCAL_SCALE \in flags
               THEN setLocalScale(js2, joint, config.mLocalScale) ELSE js2
    IN  [S EXCEPT !.joints = js3,
                  !.mActiveRoots = IF flags \cap MASK_ROT # {} THEN @ \cup {joint} ELSE @]

\* the fix of sequential end effectors: the parent's target is moved to
\* one bone length from the child's target
fixSequentialTargets(S, joint, config) ==
    LET parent == S.joints[joint].mParent
    IN  IF parent = NULL THEN [S EXCEPT !.fault = TRUE]
        ELSE IF ~hasPosTarget(S.joints[parent]) THEN S
        ELSE IF S.joints[parent].mConfig \notin DOMAIN S.mJointConfigs THEN [S EXCEPT !.fault = TRUE]
        ELSE LET child_target_pos == config.mTargetPos
                 parent_target_pos == S.mJointConfigs[S.joints[parent].mConfig].mTargetPos
                 direction == VScale(VNormalize(VSub(parent_target_pos, child_target_pos)),
                                     S.joints[joint].mLocalPosLength)
             IN  [S EXCEPT !.mJointConfigs[S.joints[parent].mConfig].mTargetPos =
                                VAdd(child_target_pos, direction),
                           !.mJointConfigs[S.joints[parent].mConfig].mFlags =
                                @ \cup {CONFIG_FLAG_TARGET_POS}]

\* the chain built for a targeted Joint, put in mChainMap;
\* as [S, sub_bases]
seedChain(S, sub_bases, joint_id, joint, chain_length) ==
    LET b == buildChain(S, joint, chain_length)
    IN  [S |-> [S EXCEPT !.joints = b.joints, !.mChainMap = PutChain(@, joint_id, b.chain)],
         sub_bases |-> sub_bases \cup b.sub_bases]

\* the body of the loop of rebuildAllChains over mJointConfigs, for a
\* Joint other than the root; as [S, sub_bases]
configureJoint(S, sub_bases, joint_id, joint, config) ==
    LET flags == config.mFlags
        S1 == IF CONFIG_FLAG_LOCAL_ROT \in flags
              THEN [S EXCEPT !.joints = lockLocalRot(@, joint, config.mLocalRot)] ELSE S
        built == IF CONFIG_FLAG_TARGET_POS \in flags
                 THEN LET c == seedChain(S1, sub_bases, joint_id, joint, config.mChainLimit)
                      IN  [S |-> fixSequentialTargets(c.S, joint, config), sub_bases |-> c.sub_bases]
                 ELSE IF CONFIG_FLAG_TARGET_ROT \in flags
                 THEN seedChain(S1, sub_bases, joint_id, joint, config.mChainLimit)
                 ELSE [S |-> S1, sub_bases |-> sub_bases]
        js3 == IF CONFIG_FLAG_LOCAL_POS \in flags
               THEN activate(setLocalPos(built.S.joints, joint, config.mLocalPos), joint)
               ELSE built.S.joints
        js4 == IF CONFIG_FLAG_LOCAL_SCALE \in flags
               THEN activate(setLocalScale(js3, joint, config.mLocalScale), joint)
               ELSE js3
    IN  IF CONFIG_FLAG_HAS_DELEGATED \in flags
        THEN [S |-> S1, sub_bases |-> sub_bases]
        ELSE [S |-> [built.S EXCEPT !.joints = js4], sub_bases |-> built.sub_bases]

\* the loop of rebuildAllChains over mJointConfigs, low id to high, over the
\* ids not yet visited; as [S, sub_bases]
RECURSIVE configureAll(_, _, _)
configureAll(S, sub_bases, ids) ==
    IF ids = {} THEN [S |-> S, sub_bases |-> sub_bases]
    ELSE LET joint_id == SetMin(ids)
             rest == ids \ {joint_id}
         IN  IF joint_id \notin DOMAIN S.mSkeleton THEN configureAll(S, sub_bases, rest)
             ELSE IF S.mSkeleton[joint_id] = NULL
             THEN configureAll([S EXCEPT !.fault = TRUE], sub_bases, rest)
             ELSE LET joint == S.mSkeleton[joint_id]
                      config == S.mJointConfigs[joint_id]
                      S1 == [S EXCEPT !.joints = setConfig(@, S.mJointConfigs, joint, joint_id)]
                  IN  IF joint = S.mRootID
                      THEN configureAll(configureRoot(S1, joint, config), sub_bases, rest)
                      ELSE LET c == configureJoint(S1, sub_bases, joint_id, joint, config)
                           IN  configureAll(c.S, c.sub_bases, rest)

\* one round of the sub-base loop of rebuildAllChains: a chain for each
\* id of sub_bases, low to high; as [S, sub_bases] with the new sub-bases
RECURSIVE chainSubBases(_, _, _)
chainSubBases(S, ids, new_sub_bases) ==
    IF ids = {} THEN [S |-> S, sub_bases |-> new_sub_bases]
    ELSE LET joint_id == SetMin(ids)
             c == seedChain(S, new_sub_bases, joint_id, S.mSkeleton[joint_id], DEFAULT_CHAIN_LIMIT)
         IN  chainSubBases(c.S, ids \ {joint_id}, c.sub_bases)

\* while (sub_bases.size() > 0)
RECURSIVE chainAllSubBases(_, _)
chainAllSubBases(S, sub_bases) ==
    IF sub_bases = {} THEN S
    ELSE LET c == chainSubBases(S, sub_bases, {})
         IN  chainAllSubBases(c.S, c.sub_bases)

\* the ids of the chains to join, in the order of mChainMap
RECURSIVE findJoins(_, _)
findJoins(S, keys) ==
    IF keys = {} THEN <<>>
    ELSE LET k == SetMin(keys)
             outer_end == S.mChainMap[k][1]
         IN  (IF /\ ~hasPosTarget(S.joints[outer_end])
                 /\ ~isSubBase(S, outer_end)
                 /\ getSingleActiveChild(S.joints, outer_end) # NULL
              THEN <<outer_end>> ELSE <<>>) \o findJoins(S, keys \ {k})

\* the chain map without the entry of key id
EraseChain(map, id) == [k \in DOMAIN map \ {id} |-> map[k]]

\* "make the joins" without "erase donor": the recipient receives the donor
\* chain and the donor stays in the map
RECURSIVE makeJoinsKeepingDonors(_, _, _)
makeJoinsKeepingDonors(map, joins, i) ==
    IF i > Len(joins) THEN map
    ELSE LET id == joins[i]
             recipients == {k \in DOMAIN map : map[k][Len(map[k])] = id}
         IN  IF recipients = {} THEN makeJoinsKeepingDonors(map, joins, i + 1)
             ELSE makeJoinsKeepingDonors(
                      [map EXCEPT ![SetMin(recipients)] =
                          @ \o (IF id \in DOMAIN map THEN Tail(map[id]) ELSE <<>>)],
                      joins, i + 1)

\* "make the joins": for each id the first chain, in the order of mChainMap,
\* whose inner end is the Joint id receives the donor chain mChainMap[id]
\* without its first Joint, and the donor is erased.  mChainMap[id] inserts
\* an empty chain when there is none.
RECURSIVE makeJoins(_, _, _)
makeJoins(map, joins, i) ==
    IF i > Len(joins) THEN map
    ELSE LET id == joins[i]
             recipients == {k \in DOMAIN map : map[k][Len(map[k])] = id}
         IN  IF recipients = {} THEN makeJoins(map, joins, i + 1)
             ELSE LET r == SetMin(recipients)
                      donor == IF id \in DOMAIN map THEN map[id] ELSE <<>>
                      joined == [map EXCEPT ![r] = @ \o (IF donor = <<>> THEN <<>> ELSE Tail(donor))]
                  IN  makeJoins(EraseChain(joined, id), joins, i + 1)

\* the chain bases without an active parent
chainBases(S) ==
    {S.mChainMap[k][Len(S.mChainMap[k])] : k \in DOMAIN S.mChainMap}

\* the chain bases, with or without an active parent
chainBasesWhateverParent(S) ==
    {b \in chainBases(S) : S.joints[b].mParent = NULL \/ S.joints[b].mParent \in DOMAIN S.joints}

activeBranchRoots(S) ==
    {b \in chainBases(S) :
        S.joints[b].mParent = NULL \/ ~isActive(S.joints[S.joints[b].mParent])}

\* the ids of a set, low to high
RECURSIVE SortedSeq(_)
SortedSeq(A) == IF A = {} THEN <<>> ELSE <<SetMin(A)>> \o SortedSeq(A \ {SetMin(A)})

\* the joints of the old chains
chainJoints(map) == UNION {{map[k][i] : i \in 1..Len(map[k])} : k \in DOMAIN map}

\* LLIK::Solver::rebuildAllChains, first part: the flags of the old chains
\* are reset, the Configs are applied and a chain is built from every
\* targeted Joint and from every sub-base
buildAllChains(S) ==
    LET S0 == [S EXCEPT !.joints = [id \in DOMAIN S.joints |->
                                       IF id \in chainJoints(S.mChainMap)
                                       THEN resetFlags(S.joints, id)[id] ELSE S.joints[id]],
                        !.mChainMap = <<>>,
                        !.mActiveRoots = {}]
        c == configureAll(S0, {}, DOMAIN S0.mJointConfigs)
    IN  chainAllSubBases(c.S, c.sub_bases)

\* LLIK::Solver::rebuildAllChains, second part: the chains of false
\* sub-bases are joined, the active roots and the active joints are cached
\* "make the joins" on the Solver
joinChains(S) == [S EXCEPT !.mChainMap = makeJoins(@, findJoins(S, DOMAIN S.mChainMap), 1)]

\* the chain bases without an active parent are added to mActiveRoots
cacheActiveRoots(S) == [S EXCEPT !.mActiveRoots = @ \cup activeBranchRoots(S)]

\* the active Joints of mSkeleton are listed in mActiveJoints and flagged
cacheActiveJoints(S) ==
    LET active == {k \in DOMAIN S.mSkeleton :
                      S.mSkeleton[k] # NULL /\ isActive(S.joints[S.mSkeleton[k]])}
    IN  [S EXCEPT !.mActiveJoints = SortedSeq(active),
                  !.joints = [id \in DOMAIN S.joints |->
                                 IF id \in active
                                 THEN [S.joints[id] EXCEPT !.mIkFlags = @ \cup {IK_FLAG_LOCAL_ROT}]
                                 ELSE S.joints[id]],
                  !.fault = @ \/ \E k \in DOMAIN S.mSkeleton : S.mSkeleton[k] = NULL]

condenseChains(S1) == cacheActiveJoints(cacheActiveRoots(joinChains(S1)))

\* the ids of mJointConfigs whose error measureMaxError reads
measuredIds(S) ==
    {id \in DOMAIN S.mJointConfigs :
        /\ id # S.mRootID
        /\ CONFIG_FLAG_TARGET_POS \in S.mJointConfigs[id].mFlags
        /\ CONFIG_FLAG_HAS_DELEGATED \notin S.mJointConfigs[id].mFlags}

\* mSkeleton[joint_id] of measureMaxError finds no Joint for these ids
unknownMeasuredIds(S) ==
    {id \in measuredIds(S) : id \notin DOMAIN S.mSkeleton \/ S.mSkeleton[id] = NULL}

\* the distance measureMaxError finds for joint_id; garbage is the end
\* position read through a null Joint pointer
measuredError(S, joint_id, garbage) ==
    dist_vec(IF joint_id \in unknownMeasuredIds(S) THEN garbage
             ELSE computeWorldEndPos(S.joints[S.mSkeleton[joint_id]]),
             S.mJointConfigs[joint_id].mTargetPos)

\* LLIK::Solver::measureMaxError: the greatest distance
measureMaxError(S, garbage) ==
    LET errs == {measuredError(S, id, garbage) : id \in measuredIds(S)}
    IN  IF errs = {} THEN 0 ELSE SetMax(errs)

\* the skeleton map after measureMaxError: mSkeleton[joint_id] inserts a
\* null pointer for an id the map does not hold
skeletonAfterMeasure(S) ==
    [k \in DOMAIN S.mSkeleton \cup unknownMeasuredIds(S) |->
        IF k \in DOMAIN S.mSkeleton THEN S.mSkeleton[k] ELSE NULL]

\* what the comparisons of updateJointConfigs find between two Configs of
\* the same id
configChanged(old_target, new_target, acceptable_error) ==
    LET mask == old_target.mFlags
    IN  \/ mask # new_target.mFlags
        \/ /\ CONFIG_FLAG_TARGET_POS \in mask
           /\ dist_vec(old_target.mTargetPos, new_target.mTargetPos) > acceptable_error
        \/ /\ CONFIG_FLAG_TARGET_ROT \in mask
           /\ ~almost_equal(old_target.mTargetRot, new_target.mTargetRot)
        \/ /\ CONFIG_FLAG_LOCAL_POS \in mask
           /\ dist_vec(old_target.mLocalPos, new_target.mLocalPos) > acceptable_error
        \/ /\ CONFIG_FLAG_LOCAL_ROT \in mask
           /\ ~almost_equal(old_target.mLocalRot, new_target.mLocalRot)

\* LLIK::Solver::updateJointConfigs: something_changed
somethingChanged(old_configs, configs, acceptable_error) ==
    IF Cardinality(DOMAIN configs) = Cardinality(DOMAIN old_configs)
    THEN \E id \in DOMAIN old_configs :
            \/ id \notin DOMAIN configs
            \/ configChanged(old_configs[id], configs[id], acceptable_error)
    ELSE TRUE

(***************************************************************************)
(* The Solver as a state machine.  One action per call of its interface;   *)
(* a call of solve() is a process whose position is pc, and which takes    *)
(* one step per chain build, relaxed branch, chain traversal and error     *)
(* measure.  The interface is called between solves (pc = "idle").         *)
(***************************************************************************)
VARIABLES
    joints,             \* the heap of Joints: id -> fields
    mSkeleton,          \* joint_map_t: key -> Joint::ptr_t (an id, or NULL)
    mRootID,
    mJointConfigs,      \* joint_config_map_t: id -> Config
    mChainMap,          \* chain_map_t: id of the outer end -> chain of ids
    mActiveRoots,
    mActiveJoints,
    mSubBaseIds,
    mSubRootIds,
    mAcceptableError,
    mLastError,
    pc,                 \* where solve() is: "idle" between calls
    loop,               \* the loop counter of solve()
    max_error,          \* the local max_error of solve()
    todo,               \* what the loop at pc has still to visit
    solves,             \* the number of calls of solve()
    solved_configs,     \* per call of solve(), the argument of the last updateJointConfigs
    configs_arg,        \* the argument of the last updateJointConfigs
    something_changed,  \* what the last updateJointConfigs returned
    operand,            \* the arguments of a call of a function of the library
    result,             \* what the call returned, as a sequence of values
    mConstraints        \* LLIKConstraintFactory: hash -> the shared Constraint

vars ==
    <<joints, mSkeleton, mRootID, mJointConfigs, mChainMap, mActiveRoots, mActiveJoints,
      mSubBaseIds, mSubRootIds, mAcceptableError, mLastError, pc, loop, max_error, todo,
      solves, solved_configs, configs_arg, something_changed, operand, result,
      mConstraints>>

\* the Solver value of the current state
Solver ==
    [joints |-> joints, mSkeleton |-> mSkeleton, mRootID |-> mRootID,
     mJointConfigs |-> mJointConfigs, mChainMap |-> mChainMap,
     mActiveRoots |-> mActiveRoots, mActiveJoints |-> mActiveJoints,
     mSubBaseIds |-> mSubBaseIds, mSubRootIds |-> mSubRootIds, fault |-> FALSE]

MAX_SOLVER_ITERATIONS == 16

MIN_SOLVER_ITERATIONS == 4

\* std::numeric_limits<F32>::max(), as a value above every distance
F32_MAX == 1000 * 1000 * 1000

\* INITIAL_RELAXATION_FACTOR = 0.25f
INITIAL_RELAXATION_FACTOR == SCALE \div 4

\* updateJointConfigs has not been called, returned true, returned false
NOT_CALLED == "not called"

CHANGED == "changed"

UNCHANGED_CONFIGS == "unchanged"

\* no function of the library has been called: no arguments, no results
NO_CALL == <<>>

\* the members of a Solver after construction, no call of solve() under way
SolverConstructed ==
    /\ joints = <<>>
    /\ mSkeleton = <<>>
    /\ mRootID = NULL
    /\ mJointConfigs = <<>>
    /\ mChainMap = <<>>
    /\ mActiveRoots = {}
    /\ mActiveJoints = <<>>
    /\ mSubBaseIds = {}
    /\ mSubRootIds = {}
    /\ mAcceptableError = IK_DEFAULT_ACCEPTABLE_ERROR
    /\ mLastError = 0
    /\ pc = "idle"
    /\ loop = 0
    /\ max_error = 0
    /\ todo = {}
    /\ solves = 0
    /\ solved_configs = <<>>
    /\ configs_arg = <<>>
    /\ something_changed = NOT_CALLED

\* LLIK::Solver::Solver(): the state after construction
InitSolver ==
    /\ SolverConstructed
    /\ operand = NO_CALL
    /\ result = NO_CALL
    /\ mConstraints = <<>>

solveVars == <<pc, loop, max_error, todo, solves, solved_configs>>

chainVars == <<mChainMap, mActiveRoots, mActiveJoints>>

\* LLIK::Solver::setRootID
SetRootID(root_id) ==
    /\ pc = "idle"
    /\ mRootID' = root_id
    /\ UNCHANGED <<operand, result, mConstraints, joints, mSkeleton, mJointConfigs, chainVars, mSubBaseIds, mSubRootIds,
                   mAcceptableError, mLastError, solveVars, configs_arg, something_changed>>

\* LLIK::Solver::addJoint
AddJoint(joint_id, parent_id, joint_info, constraint) ==
    /\ pc = "idle"
    /\ \E a \in {addJoint(joints, mSkeleton, mRootID, joint_id, parent_id, joint_info, constraint)} :
          /\ joints' = a.joints
          /\ mSkeleton' = a.mSkeleton
    /\ UNCHANGED <<operand, result, mConstraints, mRootID, mJointConfigs, chainVars, mSubBaseIds, mSubRootIds,
                   mAcceptableError, mLastError, solveVars, configs_arg, something_changed>>

\* LLIK::Solver::setSubBaseIds
SetSubBaseIds(ids) ==
    /\ pc = "idle"
    /\ mSubBaseIds' = ids
    /\ UNCHANGED <<operand, result, mConstraints, joints, mSkeleton, mRootID, mJointConfigs, chainVars, mSubRootIds,
                   mAcceptableError, mLastError, solveVars, configs_arg, something_changed>>

\* LLIK::Solver::setSubRootIds
SetSubRootIds(ids) ==
    /\ pc = "idle"
    /\ mSubRootIds' = ids
    /\ UNCHANGED <<operand, result, mConstraints, joints, mSkeleton, mRootID, mJointConfigs, chainVars, mSubBaseIds,
                   mAcceptableError, mLastError, solveVars, configs_arg, something_changed>>

\* LLIK::Solver::setAcceptableError
SetAcceptableError(slop) ==
    /\ pc = "idle"
    /\ mAcceptableError' = slop
    /\ UNCHANGED <<operand, result, mConstraints, joints, mSkeleton, mRootID, mJointConfigs, chainVars, mSubBaseIds,
                   mSubRootIds, mLastError, solveVars, configs_arg, something_changed>>

\* LLIK::Solver::updateJointConfigs
UpdateJointConfigs(configs) ==
    /\ pc = "idle"
    /\ configs_arg' = configs
    /\ IF somethingChanged(mJointConfigs, configs, mAcceptableError)
       THEN /\ mJointConfigs' = configs
            /\ something_changed' = CHANGED
       ELSE /\ mJointConfigs' = mJointConfigs
            /\ something_changed' = UNCHANGED_CONFIGS
    /\ UNCHANGED <<operand, result, mConstraints, joints, mSkeleton, mRootID, chainVars, mSubBaseIds, mSubRootIds,
                   mAcceptableError, mLastError, solveVars>>

\* solve(): rebuildAllChains() as far as the chains of the sub-bases.  Where
\* the code goes through a null or dangling pointer the process either
\* stops (segv) or goes on with what buildAllChains makes of it.
Solve(segv) ==
    /\ pc = "idle"
    /\ \E S1 \in {buildAllChains(Solver)} :
          /\ joints' = S1.joints
          /\ mJointConfigs' = S1.mJointConfigs
          /\ mChainMap' = S1.mChainMap
          /\ mActiveRoots' = S1.mActiveRoots
          /\ pc' = IF S1.fault /\ segv THEN "crashed" ELSE "condense"
    /\ solves' = solves + 1
    /\ solved_configs' = Append(solved_configs, configs_arg)
    /\ UNCHANGED <<operand, result, mConstraints, mSkeleton, mRootID, mActiveJoints, mSubBaseIds, mSubRootIds,
                   mAcceptableError, mLastError, loop, max_error, todo, configs_arg,
                   something_changed>>

\* solve(): the rest of rebuildAllChains(), then the loop over mActiveRoots
\* is entered
Condense(segv) ==
    /\ pc = "condense"
    /\ \E S2 \in {condenseChains(Solver)} :
          /\ joints' = S2.joints
          /\ mChainMap' = S2.mChainMap
          /\ mActiveRoots' = S2.mActiveRoots
          /\ mActiveJoints' = S2.mActiveJoints
          /\ todo' = S2.mActiveRoots
          /\ pc' = IF S2.fault /\ segv THEN "crashed" ELSE "relax"
    /\ UNCHANGED <<operand, result, mConstraints, mSkeleton, mRootID, mJointConfigs, mSubBaseIds, mSubRootIds,
                   mAcceptableError, mLastError, loop, max_error, solves, solved_configs,
                   configs_arg,
                   something_changed>>

passFrame ==
    <<operand, result, mConstraints, mSkeleton, mRootID, mJointConfigs, chainVars, mSubBaseIds, mSubRootIds,
      mAcceptableError, mLastError, loop, max_error, solves, solved_configs, configs_arg,
      something_changed>>

\* solve(): root->relaxRotationsRecursively(INITIAL_RELAXATION_FACTOR) for
\* one of mActiveRoots, a std::set ordered by the addresses of the Joints
Relax(root) ==
    /\ pc = "relax"
    /\ root \in todo
    /\ joints' = relaxRotationsRecursively(joints, root, INITIAL_RELAXATION_FACTOR)
    /\ todo' = todo \ {root}
    /\ pc' = pc
    /\ UNCHANGED passFrame

\* solve(): the loop over mActiveRoots ends; max_error and loop are set
RelaxDone ==
    /\ pc = "relax"
    /\ todo = {}
    /\ pc' = "test"
    /\ loop' = 0
    /\ max_error' = F32_MAX
    /\ UNCHANGED <<operand, result, mConstraints, joints, mSkeleton, mRootID, mJointConfigs, chainVars, mSubBaseIds,
                   mSubRootIds, mAcceptableError, mLastError, todo, solves, solved_configs,
                   configs_arg,
                   something_changed>>

\* the loop condition without its bound on the number of iterations
loopConditionUnbounded(n, err, acceptable_error) ==
    n < MIN_SOLVER_ITERATIONS \/ err > acceptable_error

\* the loop condition with one more iteration before the error is looked at
loopConditionAfterMinimum(n, err, acceptable_error) ==
    n <= MIN_SOLVER_ITERATIONS \/ (n < MAX_SOLVER_ITERATIONS /\ err > acceptable_error)

\* the condition of the loop of solve()
loopCondition(n, err, acceptable_error) ==
    n < MIN_SOLVER_ITERATIONS \/ (n < MAX_SOLVER_ITERATIONS /\ err > acceptable_error)

\* solve(): the loop condition is tested; the loop goes on with a pass, or
\* solve() returns mLastError
Test ==
    /\ pc = "test"
    /\ IF loopCondition(loop, max_error, mAcceptableError)
       THEN /\ pc' = "inward"
            /\ todo' = DOMAIN mChainMap
            /\ mLastError' = mLastError
       ELSE /\ pc' = "idle"
            /\ todo' = {}
            /\ mLastError' = max_error
    /\ UNCHANGED <<operand, result, mConstraints, joints, mSkeleton, mRootID, mJointConfigs, chainVars, mSubBaseIds,
                   mSubRootIds, mAcceptableError, loop, max_error, solves, solved_configs,
                   configs_arg,
                   something_changed>>

\* executeFabrikPass: executeFabrikInward on the next chain, high key first
Inward ==
    /\ pc = "inward"
    /\ todo # {}
    /\ joints' = executeFabrikInward(joints, mJointConfigs, mChainMap[SetMax(todo)], TRUE)
    /\ todo' = todo \ {SetMax(todo)}
    /\ pc' = pc
    /\ UNCHANGED passFrame

InwardDone ==
    /\ pc = "inward"
    /\ todo = {}
    /\ pc' = "roots"
    /\ todo' = mActiveRoots
    /\ UNCHANGED <<joints, passFrame>>

\* executeFabrikPass: root->updateChildLocalRots() for one of mActiveRoots
Roots(root) ==
    /\ pc = "roots"
    /\ root \in todo
    /\ joints' = updateChildLocalRots(joints, root, 1)
    /\ todo' = todo \ {root}
    /\ pc' = pc
    /\ UNCHANGED passFrame

RootsDone ==
    /\ pc = "roots"
    /\ todo = {}
    /\ pc' = "outward"
    /\ todo' = DOMAIN mChainMap
    /\ UNCHANGED <<joints, passFrame>>

\* updateEndOutward reads through mParent, which the outer end of a chain
\* of one parentless Joint does not have
outwardFaults(js, chain) == js[chain[1]].mParent = NULL

\* executeFabrikPass: executeFabrikOutward on the next chain, low key first
Outward(segv) ==
    /\ pc = "outward"
    /\ todo # {}
    /\ LET chain == mChainMap[SetMin(todo)]
       IN  IF outwardFaults(joints, chain)
           THEN /\ joints' = joints
                /\ pc' = IF segv THEN "crashed" ELSE pc
           ELSE /\ joints' = executeFabrikOutward(joints, mJointConfigs, chain, TRUE)
                /\ pc' = pc
    /\ todo' = todo \ {SetMin(todo)}
    /\ UNCHANGED passFrame

OutwardDone ==
    /\ pc = "outward"
    /\ todo = {}
    /\ pc' = "measure"
    /\ todo' = todo
    /\ UNCHANGED <<joints, passFrame>>

\* solveOnce: measureMaxError(), then ++loop.  For a measured id without a
\* Joint, mSkeleton[joint_id] inserts a null pointer and the end position is
\* read through it: the process stops (segv) or measures garbage.
Measure(segv, garbage) ==
    /\ pc = "measure"
    /\ mSkeleton' = skeletonAfterMeasure(Solver)
    /\ max_error' = measureMaxError(Solver, garbage)
    /\ loop' = loop + 1
    /\ pc' = IF unknownMeasuredIds(Solver) # {} /\ segv THEN "crashed" ELSE "test"
    /\ UNCHANGED <<operand, result, mConstraints, joints, mRootID, mJointConfigs, chainVars, mSubBaseIds, mSubRootIds,
                   mAcceptableError, mLastError, todo, solves, solved_configs,
                   configs_arg, something_changed>>

\* LLIK::Solver::resetSkeleton: resetRecursively() on the Joint of the first
\* entry of mSkeleton.  With no entry, or a null Joint in the first one, the
\* call goes through an invalid pointer: the process stops (segv) or goes
\* on with nothing reset.
ResetSkeleton(segv) ==
    /\ pc = "idle"
    /\ IF DOMAIN mSkeleton = {} \/ mSkeleton[SetMin(DOMAIN mSkeleton)] = NULL
       THEN /\ joints' = joints
            /\ pc' = IF segv THEN "crashed" ELSE "idle"
       ELSE /\ joints' = resetRecursively(joints, mSkeleton[SetMin(DOMAIN mSkeleton)])
            /\ pc' = "idle"
    /\ UNCHANGED <<operand, result, mConstraints, mSkeleton, mRootID, mJointConfigs, chainVars, mSubBaseIds, mSubRootIds,
                   mAcceptableError, mLastError, loop, max_error, todo, solves,
                   solved_configs, configs_arg, something_changed>>

(***************************************************************************)
(* SpecBuild: a skeleton is built by any sequence of setRootID and         *)
(* addJoint calls on a new Solver.                                         *)
(***************************************************************************)
\* the greatest joint id of the calls
MaxJointId == 2

\* the ids passed to setRootID and addJoint: the valid ones and -1
CallIds == NULL..MaxJointId

\* LLJoint values: a joint at the origin of its parent, a joint one unit
\* along x; both with a bone of one unit along x and the unit scale
InfoAtOrigin == [position |-> VZero, end |-> x_axis, scale |-> ONE]

InfoAlongX == [position |-> x_axis, end |-> x_axis, scale |-> ONE]

BuildInfos == {InfoAtOrigin, InfoAlongX}

BuildNext ==
    \/ \E root_id \in CallIds : SetRootID(root_id)
    \/ \E joint_id \in CallIds, parent_id \in CallIds, info \in BuildInfos :
          AddJoint(joint_id, parent_id, info, NoConstraint)

SpecBuild == InitSolver /\ [][BuildNext]_vars

\* the joints of the skeleton without a parent
parentless == {id \in DOMAIN joints : joints[id].mParent = NULL}

\* C10: after any sequence of setRootID and addJoint calls the skeleton is
\* a single tree: at most one joint has no parent, and a step that adds a
\* joint either hangs it under a joint of the skeleton or makes it the one
\* parentless joint of a skeleton that was empty.
C10_SingleTree ==
    /\ [](Cardinality(parentless) <= 1)
    /\ [][\A id \in DOMAIN joints' \ DOMAIN joints :
             \/ joints'[id].mParent \in DOMAIN joints
             \/ joints'[id].mParent = NULL /\ DOMAIN joints = {}]_vars

(***************************************************************************)
(* Config values are made as callers make them: a default Config, then     *)
(* its setters.                                                            *)
(***************************************************************************)
\* LLIK::Joint::Config::setLocalPos
ConfigSetLocalPos(c, pos) ==
    [c EXCEPT !.mLocalPos = pos, !.mFlags = @ \cup {CONFIG_FLAG_LOCAL_POS}]

\* LLIK::Joint::Config::setLocalRot
ConfigSetLocalRot(c, rot) ==
    [c EXCEPT !.mLocalRot = QNormalize(rot), !.mFlags = @ \cup {CONFIG_FLAG_LOCAL_ROT}]

\* LLIK::Joint::Config::setLocalScale
ConfigSetLocalScale(c, scale) ==
    [c EXCEPT !.mLocalScale = scale, !.mFlags = @ \cup {CONFIG_FLAG_LOCAL_SCALE}]

\* LLIK::Joint::Config::setTargetPos
ConfigSetTargetPos(c, pos) ==
    [c EXCEPT !.mTargetPos = pos, !.mFlags = @ \cup {CONFIG_FLAG_TARGET_POS}]

\* LLIK::Joint::Config::setTargetRot
ConfigSetTargetRot(c, rot) ==
    [c EXCEPT !.mTargetRot = QNormalize(rot), !.mFlags = @ \cup {CONFIG_FLAG_TARGET_ROT}]

\* LLIK::Joint::Config::delegate
ConfigDelegate(c) == [c EXCEPT !.mFlags = @ \cup {CONFIG_FLAG_HAS_DELEGATED}]

\* LLIK::Joint::Config::disableConstraint
ConfigDisableConstraint(c) == [c EXCEPT !.mFlags = @ \cup {CONFIG_FLAG_DISABLE_CONSTRAINT}]

\* LLIK::Joint::Config::updateFrom: the Config c after c.updateFrom(other_config)
updateFrom(c, other_config) ==
    IF c.mFlags = other_config.mFlags THEN other_config
    ELSE LET c1 == IF CONFIG_FLAG_LOCAL_POS \in other_config.mFlags
                   THEN ConfigSetLocalPos(c, other_config.mLocalPos) ELSE c
             c2 == IF CONFIG_FLAG_LOCAL_ROT \in other_config.mFlags
                   THEN ConfigSetLocalRot(c1, other_config.mLocalRot) ELSE c1
             c3 == IF CONFIG_FLAG_TARGET_POS \in other_config.mFlags
                   THEN ConfigSetTargetPos(c2, other_config.mTargetPos) ELSE c2
             c4 == IF CONFIG_FLAG_TARGET_ROT \in other_config.mFlags
                   THEN ConfigSetTargetRot(c3, other_config.mTargetRot) ELSE c3
             c5 == IF CONFIG_FLAG_LOCAL_SCALE \in other_config.mFlags
                   THEN ConfigSetLocalScale(c4, other_config.mLocalScale) ELSE c4
         IN  IF CONFIG_FLAG_DISABLE_CONSTRAINT \in other_config.mFlags
             THEN ConfigDisableConstraint(c5) ELSE c5

\* every map from a subset of ids to the Configs of choices
ConfigMapsOver(ids, choices) == UNION {[d -> choices] : d \in SUBSET ids}

\* a quarter turn about z, and half a unit more than the unit scale
QuarterTurnZ == setAngleAxis(F_PI \div 2, z_axis)

\* points: one unit along x, the same moved by the resolution, one unit along y
PointX == x_axis

PointXNear == <<SCALE + 1, 0, 0>>

PointY == y_axis

ScaleHalfMore == <<SCALE + SCALE \div 2, SCALE + SCALE \div 2, SCALE + SCALE \div 2>>

(***************************************************************************)
(* SpecConfigs: updateJointConfigs is called with any sequence of maps     *)
(* over two ids, between changes of the acceptable error.                  *)
(***************************************************************************)
ConfigsIds == {1, 2}

ConfigsChoices ==
    {ConfigSetTargetPos(NoConfig, PointX), ConfigSetTargetPos(NoConfig, PointXNear),
     ConfigSetTargetPos(NoConfig, PointY),
     ConfigSetTargetRot(NoConfig, QIdentity), ConfigSetTargetRot(NoConfig, QuarterTurnZ),
     ConfigSetLocalPos(NoConfig, PointX), ConfigSetLocalPos(NoConfig, PointY),
     ConfigSetLocalRot(NoConfig, QIdentity), ConfigSetLocalRot(NoConfig, QuarterTurnZ),
     ConfigSetLocalScale(NoConfig, ONE), ConfigSetLocalScale(NoConfig, ScaleHalfMore)}

\* the acceptable errors set: the default and none
ConfigsErrors == {IK_DEFAULT_ACCEPTABLE_ERROR, 0}

ConfigsNext ==
    \/ \E configs \in ConfigMapsOver(ConfigsIds, ConfigsChoices) : UpdateJointConfigs(configs)
    \/ \E slop \in ConfigsErrors : SetAcceptableError(slop)

SpecConfigs == InitSolver /\ [][ConfigsNext]_vars

\* the payload fields present in both Configs are within tolerance
payloadsWithin(old, new, tolerance) ==
    /\ CONFIG_FLAG_TARGET_POS \in old.mFlags => dist_vec(old.mTargetPos, new.mTargetPos) <= tolerance
    /\ CONFIG_FLAG_TARGET_ROT \in old.mFlags => almost_equal(old.mTargetRot, new.mTargetRot)
    /\ CONFIG_FLAG_LOCAL_POS \in old.mFlags => dist_vec(old.mLocalPos, new.mLocalPos) <= tolerance
    /\ CONFIG_FLAG_LOCAL_ROT \in old.mFlags => almost_equal(old.mLocalRot, new.mLocalRot)
    /\ CONFIG_FLAG_LOCAL_SCALE \in old.mFlags => dist_vec(old.mLocalScale, new.mLocalScale) <= tolerance

\* the two maps have the same ids and, per id, equal flags and payloads
\* within tolerance
sameConfigs(old_configs, configs, tolerance) ==
    /\ DOMAIN old_configs = DOMAIN configs
    /\ \A id \in DOMAIN configs :
          /\ old_configs[id].mFlags = configs[id].mFlags
          /\ payloadsWithin(old_configs[id], configs[id], tolerance)

\* C6: a call of updateJointConfigs returns false if and only if the new
\* map has the ids of the cached map and every entry has equal flags and
\* every payload present (target pos, target rot, local pos, local rot,
\* local scale) within tolerance of the cached one.
C6_UnchangedIffSame ==
    [][mAcceptableError' = mAcceptableError =>
          ((something_changed' = UNCHANGED_CONFIGS)
              <=> sameConfigs(mJointConfigs, configs_arg', mAcceptableError))]_vars

(***************************************************************************)
(* Skeletons are made as callers make them: setRootID, then addJoint calls *)
(* on a new Solver.                                                        *)
(***************************************************************************)
\* the heap and skeleton map after a sequence of addJoint calls, each
\* <<joint_id, parent_id, joint_info, constraint>>
RECURSIVE addJoints(_, _, _, _)
RECURSIVE addJointsAfter(_, _, _)
addJoints(js, sk, root_id, calls) ==
    IF calls = <<>> THEN [joints |-> js, mSkeleton |-> sk]
    ELSE addJointsAfter(addJoint(js, sk, root_id, calls[1][1], calls[1][2], calls[1][3], calls[1][4]),
                        root_id, Tail(calls))

\* the calls that follow an addJoint call with result a
addJointsAfter(a, root_id, calls) == addJoints(a.joints, a.mSkeleton, root_id, calls)

\* the state after setRootID(root_id) and the addJoint calls on a new Solver
InitSkeleton(root_id, calls) ==
    /\ mRootID = root_id
    /\ \E a \in {addJoints(<<>>, <<>>, root_id, calls)} :
          /\ joints = a.joints
          /\ mSkeleton = a.mSkeleton
    /\ mJointConfigs = <<>>
    /\ mChainMap = <<>>
    /\ mActiveRoots = {}
    /\ mActiveJoints = <<>>
    /\ mSubBaseIds = {}
    /\ mSubRootIds = {}
    /\ mAcceptableError = IK_DEFAULT_ACCEPTABLE_ERROR
    /\ mLastError = 0
    /\ pc = "idle"
    /\ loop = 0
    /\ max_error = 0
    /\ todo = {}
    /\ solves = 0
    /\ solved_configs = <<>>
    /\ configs_arg = <<>>
    /\ something_changed = NOT_CALLED
    /\ operand = NO_CALL
    /\ result = NO_CALL
    /\ mConstraints = <<>>

\* the steps of a call of solve() after its first
SolveSteps(Garbage) ==
    \/ \E segv \in BOOLEAN : Condense(segv)
    \/ \E root \in todo : Relax(root)
    \/ RelaxDone
    \/ Test
    \/ Inward
    \/ InwardDone
    \/ \E root \in todo : Roots(root)
    \/ RootsDone
    \/ \E segv \in BOOLEAN : Outward(segv)
    \/ OutwardDone
    \/ \E segv \in BOOLEAN, garbage \in Garbage : Measure(segv, garbage)

\* the number of calls of solve() in a behaviour
MaxSolves == 2

(***************************************************************************)
(* SpecSolve: an arm of three joints along x, shoulder 0 (the root) at the *)
(* origin, elbow 1 with an ElbowConstraint, wrist 2; every bone one unit   *)
(* long.  updateJointConfigs, setAcceptableError and solve() are called in *)
(* any order.                                                              *)
(***************************************************************************)
ArmElbow == ElbowConstraint(x_axis, z_axis, 0, (3 * F_PI) \div 4, -(F_PI \div 4), F_PI \div 4)

ArmCalls ==
    <<<<0, NULL, InfoAtOrigin, NoConstraint>>,
      <<1, 0, InfoAlongX, ArmElbow>>,
      <<2, 1, InfoAlongX, NoConstraint>>>>

\* an id no joint of the arm has
UnknownId == 2 + 3

\* targets of the wrist: within reach in the plane of the arm, within
\* reach out of it, and out of reach
TargetInPlane == <<2 * SCALE, SCALE, 0>>

TargetOffPlane == <<SCALE, -SCALE, SCALE>>

TargetFar == <<5 * SCALE, 0, 0>>

ArmConfigs ==
    {(2 :> ConfigSetTargetPos(NoConfig, TargetInPlane)),
     (2 :> ConfigSetTargetPos(NoConfig, TargetOffPlane)),
     (2 :> ConfigSetTargetPos(NoConfig, TargetFar)),
     (1 :> ConfigSetLocalPos(NoConfig, PointY)),
     (1 :> ConfigSetLocalRot(NoConfig, QuarterTurnZ)),
     (1 :> ConfigSetTargetRot(ConfigSetLocalRot(NoConfig, QIdentity), QuarterTurnZ))
        @@ (2 :> ConfigSetTargetPos(NoConfig, TargetInPlane)),
     (1 :> ConfigDelegate(ConfigSetTargetRot(ConfigSetLocalRot(NoConfig, QIdentity), QuarterTurnZ)))
        @@ (2 :> ConfigSetTargetPos(NoConfig, TargetOffPlane)),
     (2 :> ConfigSetTargetPos(ConfigSetLocalRot(NoConfig, QuarterTurnZ), TargetOffPlane)),
     (2 :> ConfigSetTargetPos(NoConfig, TargetInPlane))
        @@ (UnknownId :> ConfigSetTargetPos(NoConfig, PointX))}

\* what a read of an end position through a null Joint pointer may give
ArmGarbage == {VZero, PointY}

\* the acceptable errors set: the default, and a hundredth of a unit
ArmErrors == {IK_DEFAULT_ACCEPTABLE_ERROR, SCALE \div 100}

ArmSteps == SolveSteps(ArmGarbage)

ArmNext ==
    \/ \E configs \in ArmConfigs : UpdateJointConfigs(configs)
    \/ \E slop \in ArmErrors : SetAcceptableError(slop)
    \/ solves < MaxSolves /\ \E segv \in BOOLEAN : Solve(segv)
    \/ ArmSteps

\* setRootID(0) and the addJoint calls of the arm, on a new Solver
ArmInit == InitSkeleton(0, ArmCalls)

SpecSolve == ArmInit /\ [][ArmNext]_vars

(***************************************************************************)
(* Properties of solve() on the arm.                                       *)
(***************************************************************************)
\* solve() has been called and has returned
solveReturned == pc = "idle" /\ solves > 0

\* the tolerance of the comparisons of world positions and rotations: a
\* hundredth of a unit, five times the rounding of a rotated vector
WorldTolerance == SCALE \div 100

\* the Joint id is where its parent and its local transform put it
worldFromLocal(js, id) ==
    /\ dist_vec(js[id].mPos, computePosFromParent(js, id)) <= WorldTolerance
    /\ almost_equal_tol(js[id].mRot,
                        QNormalize(QMul(js[id].mLocalRot, js[js[id].mParent].mRot)),
                        WorldTolerance)

\* C1: after solve() returns, every joint that has a parent has the world
\* position parent.pos + local_pos rotated by parent.rot and the world
\* rotation local_rot composed with parent.rot, whatever the configs
\* (LOCAL_POS or LOCAL_ROT alone included).
C1_WorldFromLocal ==
    solveReturned =>
        \A id \in DOMAIN joints : joints[id].mParent # NULL => worldFromLocal(joints, id)

\* C2: between the passes of a solve, and between solves, the parentless
\* joint has its local rotation locked and its world rotation equal to its
\* local rotation.
C2_RootRotIsLocalRot ==
    pc \in {"idle", "test"} =>
        \A id \in parentless :
            localRotLocked(joints[id]) /\ joints[id].mRot = joints[id].mLocalRot

\* the positions of solve() from the end of rebuildAllChains to its return
afterRebuild == {"relax", "test", "inward", "roots", "outward", "measure"}

\* the joints other than the root whose Config carries LOCAL_ROT
lockedByConfig ==
    {id \in DOMAIN mJointConfigs \cap DOMAIN joints :
        id # mRootID /\ CONFIG_FLAG_LOCAL_ROT \in mJointConfigs[id].mFlags}

\* C3: from the end of rebuildAllChains until solve() returns, a joint
\* other than the root whose Config carries LOCAL_ROT has the local rotation
\* of its Config, whatever the other flags of the Config.
C3_LockedLocalRotKept ==
    pc \in afterRebuild =>
        \A id \in lockedByConfig : joints[id].mLocalRot = mJointConfigs[id].mLocalRot

\* the positions of a pass of the loop of solve(), last to first
passRank ==
    CASE pc = "measure" -> 1
      [] pc = "outward" -> 2
      [] pc = "roots" -> 3
      [] pc = "inward" -> 4
      [] pc = "test" -> 5
      [] OTHER -> 0

\* more than any loop over chains or roots has to visit
rankUnit == Cardinality(DOMAIN joints) + 1

\* a bound on the steps solve() has left to take
solveRank ==
    CASE pc \in {"idle", "crashed"} -> 0
      [] pc = "condense" -> (MAX_SOLVER_ITERATIONS + 1) * 6 * rankUnit + 2 * rankUnit
      [] pc = "relax" -> (MAX_SOLVER_ITERATIONS + 1) * 6 * rankUnit + rankUnit + Cardinality(todo)
      [] OTHER -> (MAX_SOLVER_ITERATIONS - loop) * 6 * rankUnit + passRank * rankUnit
                      + Cardinality(todo)

\* solve() is at a position of its code and the loop at that position has a
\* Joint or a chain for each of its visits, so that a step can be taken
solveCanStep ==
    CASE pc \in {"condense", "test", "measure"} -> TRUE
      [] pc \in {"relax", "roots"} -> todo \subseteq DOMAIN joints
      [] pc \in {"inward", "outward"} -> todo \subseteq DOMAIN mChainMap
      [] OTHER -> FALSE

rotations == [id \in DOMAIN joints |-> <<joints[id].mLocalRot, joints[id].mRot>>]

\* updateJointConfigs reported the configs unchanged, and they are those of
\* the previous solve: before the call of solve() the last argument is that
\* of the last solve, during the call the last two solves had the same
repeatedSolve ==
    /\ something_changed = UNCHANGED_CONFIGS
    /\ IF pc = "idle"
       THEN /\ solved_configs # <<>>
            /\ configs_arg = solved_configs[Len(solved_configs)]
       ELSE /\ Len(solved_configs) >= 2
            /\ solved_configs[Len(solved_configs)] = solved_configs[Len(solved_configs) - 1]

\* C5: when updateJointConfigs reported the configs unchanged from those of
\* the previous solve, no step of a solve rebuilds the chains, changes a
\* local or world rotation or changes the cached last error.
C5_UnchangedSolveIsNoOp ==
    [][repeatedSolve
          => (rotations' = rotations /\ mChainMap' = mChainMap /\ mLastError' = mLastError)]_vars

\* the greatest distance measureMaxError finds over the measured ids that
\* have a Joint
measuredKnownError(S) ==
    LET errs == {measuredError(S, id, VZero) : id \in measuredIds(S) \ unknownMeasuredIds(S)}
    IN  IF errs = {} THEN 0 ELSE SetMax(errs)

\* C7: a Config whose id is not in the skeleton is ignored: solve() goes on
\* normally, the skeleton map gets no entry, and the error measured by a
\* pass is that of the joints that exist.
C7_UnknownIdIgnored ==
    /\ pc # "crashed"
    /\ \A k \in DOMAIN mSkeleton : mSkeleton[k] # NULL
    /\ (pc = "test" /\ loop > 0) => max_error = measuredKnownError(Solver)

(***************************************************************************)
(* SpecChains: a skeleton with a branch: the root 0, joint A under it,     *)
(* joint B under A and the other joints under B, under every assignment of *)
(* the ids 1..MaxBranchId to A, B and the children of B.  The sub-base     *)
(* whitelist, the sub-root ids and the configs are set in any order, and    *)
(* solve() is called.                                                      *)
(***************************************************************************)
MaxBranchId == 4

\* the number of calls of solve() in a behaviour of SpecChains
MaxBranchSolves == 1

BranchIds == 1..MaxBranchId

\* the assignments of ids: <<id of A, id of B, ids of the children of B>>
BranchAssignments ==
    {p \in [BranchIds -> BranchIds] : \A i, j \in BranchIds : p[i] = p[j] => i = j}

InfoAlongY == [position |-> y_axis, end |-> x_axis, scale |-> ONE]

\* the addJoint calls of the skeleton, parents before children
BranchCalls(p) ==
    <<<<0, NULL, InfoAtOrigin, NoConstraint>>,
      <<p[1], 0, InfoAlongX, NoConstraint>>,
      <<p[2], p[1], InfoAlongX, NoConstraint>>,
      <<p[3], p[2], InfoAlongX, NoConstraint>>>>
    \o [i \in 1..(MaxBranchId - 3) |-> <<p[i + 3], p[2], InfoAlongY, NoConstraint>>]

\* the position target given to joint id
BranchTarget(id) == <<2 * SCALE, (id * SCALE) \div 2, 0>>

\* the config maps: a position target on one or on two joints
BranchConfigs ==
    {[id \in d |-> ConfigSetTargetPos(NoConfig, BranchTarget(id))] :
        d \in {e \in SUBSET BranchIds : Cardinality(e) \in {1, 2}}}

\* the sets given to setSubBaseIds and to setSubRootIds
BranchWhitelists == {{}, {1}}

BranchSubRoots == {{}, {2}}

BranchGarbage == {VZero}

BranchNext ==
    \/ \E ids \in BranchWhitelists : SetSubBaseIds(ids)
    \/ \E ids \in BranchSubRoots : SetSubRootIds(ids)
    \/ \E configs \in BranchConfigs : UpdateJointConfigs(configs)
    \/ solves < MaxBranchSolves /\ \E segv \in BOOLEAN : Solve(segv)
    \/ SolveSteps(BranchGarbage)

BranchInit == \E p \in BranchAssignments : InitSkeleton(0, BranchCalls(p))

SpecChains == BranchInit /\ [][BranchNext]_vars

(***************************************************************************)
(* Properties of the chains.                                               *)
(***************************************************************************)
\* the joints with a position target in their Config
targeted ==
    {id \in DOMAIN mJointConfigs \cap DOMAIN joints :
        CONFIG_FLAG_TARGET_POS \in mJointConfigs[id].mFlags}

\* a joint with more than one child, or one of the caller's whitelist
subBase(id) == Len(joints[id].mChildren) > 1 \/ id \in mSubBaseIds

\* a joint at which the inward walk has to stop
stopJoint(id) ==
    \/ id \in mSubRootIds
    \/ id = mRootID
    \/ id \in targeted
    \/ subBase(id)

\* C8: when the chains have been built (and before false sub-bases are
\* condensed), in every chain the joints after the seed are ancestors of
\* which the last one, and only the last one, is a stop joint: a sub-root,
\* the root, a joint with a position target in its config, or a sub-base (a
\* joint with more than one child or a joint of the whitelist).
C8_ChainStopsAtFirstStop ==
    pc = "condense" =>
        \A k \in DOMAIN mChainMap :
            \A i \in 2..Len(mChainMap[k]) :
                stopJoint(mChainMap[k][i]) <=> i = Len(mChainMap[k])

\* the joints from id inward to the parentless joint
RECURSIVE pathToRoot(_)
pathToRoot(id) ==
    IF joints[id].mParent = NULL THEN <<id>> ELSE <<id>> \o pathToRoot(joints[id].mParent)

childrenOf(id) == {joints[id].mChildren[i] : i \in 1..Len(joints[id].mChildren)}

\* joint b has two or more children, its children are the targeted joints
\* and the only configured ones, b is no sub-root, and the joints from b's
\* parent to the root have one child each and are neither sub-roots nor
\* whitelisted
branchScenario(b) ==
    /\ Cardinality(childrenOf(b)) >= 2
    /\ targeted = childrenOf(b)
    /\ DOMAIN mJointConfigs = targeted
    /\ b \notin mSubRootIds
    /\ \A i \in 2..Len(pathToRoot(b)) :
          /\ Len(joints[pathToRoot(b)[i]].mChildren) = 1
          /\ pathToRoot(b)[i] \notin mSubRootIds \cup mSubBaseIds

\* the chains of the scenario: <<child, b>> for each child, b to the root
branchChains(b) ==
    [k \in childrenOf(b) \cup {b} |-> IF k = b THEN pathToRoot(b) ELSE <<k, b>>]

\* C9: when rebuildAllChains has run on a skeleton whose joint B has k >= 2
\* children, each with a position target, and no other branching or target
\* between B and the root, the chains are the k chains <<child, B>> and the
\* chain from B to the root, and the active roots are the root alone.
C9_BranchChains ==
    pc \in afterRebuild =>
        \A b \in DOMAIN joints :
            branchScenario(b) => (mChainMap = branchChains(b) /\ mActiveRoots = {mRootID})

(***************************************************************************)
(* Properties of addJoint (SpecBuild).                                     *)
(***************************************************************************)
\* the parent link, the children and the constraint of every joint
skeletonLinks ==
    [id \in DOMAIN joints |->
        <<joints[id].mParent, joints[id].mChildren, joints[id].mConstraint>>]

\* C11: a call of addJoint with a negative joint id, or with a joint id
\* that the skeleton already has, leaves the skeleton as it was: the same
\* joints, each with the parent link, the children and the constraint it
\* had.
C11_RejectedAddJoint ==
    [][\A joint_id \in CallIds, parent_id \in CallIds, info \in BuildInfos :
          (/\ joint_id < 0 \/ joint_id \in DOMAIN mSkeleton
           /\ AddJoint(joint_id, parent_id, info, NoConstraint))
              => (/\ DOMAIN joints' = DOMAIN joints
                  /\ mSkeleton' = mSkeleton
                  /\ skeletonLinks' = skeletonLinks)]_vars

\* a skeleton of a joint and its child: addJoint with either id is a call
\* with an id already present
C11_SkeletonWithChild ==
    \E id \in DOMAIN joints : joints[id].mChildren # <<>> /\ joints[id].mParent = NULL

(***************************************************************************)
(* SpecReset: a chain of three joints, each one unit along x from its      *)
(* parent, under every assignment of the ids 0..2 to the root, its child   *)
(* and its grandchild.  updateJointConfigs, solve() and resetSkeleton()    *)
(* are called in any order.                                                *)
(***************************************************************************)
ResetIds == {0, 1, 2}

\* the assignments of ids: <<root, child, grandchild>>
ResetAssignments ==
    {p \in [1..3 -> ResetIds] : \A i, j \in 1..3 : p[i] = p[j] => i = j}

ResetCalls(p) ==
    <<<<p[1], NULL, InfoAtOrigin, NoConstraint>>,
      <<p[2], p[1], InfoAlongX, NoConstraint>>,
      <<p[3], p[2], InfoAlongX, NoConstraint>>>>

\* a position target within reach for one joint, or a local scale for it
ResetConfigs ==
    {(id :> ConfigSetTargetPos(NoConfig, PointY)) : id \in ResetIds}
        \cup {(id :> ConfigSetLocalScale(NoConfig, ScaleHalfMore)) : id \in ResetIds}

ResetGarbage == {VZero}

ResetNext ==
    \/ \E configs \in ResetConfigs : UpdateJointConfigs(configs)
    \/ solves < MaxSolves /\ \E segv \in BOOLEAN : Solve(segv)
    \/ SolveSteps(ResetGarbage)
    \/ \E segv \in BOOLEAN : ResetSkeleton(segv)

ResetInit == \E p \in ResetAssignments : InitSkeleton(p[1], ResetCalls(p))

SpecReset == ResetInit /\ [][ResetNext]_vars

\* the Joint id of heap js is in its rest pose: the identity as local
\* rotation, the scaled geometry of its info, the world transform that
\* its parent gives it
restPose(js, id) ==
    /\ js[id].mLocalRot = QIdentity
    /\ js[id].mLocalPos = scaledVec(js[id].info.position, js[id].info.scale)
    /\ js[id].mBone = scaledVec(js[id].info.end, js[id].info.scale)
    /\ IF js[id].mParent # NULL
       THEN /\ js[id].mPos = VAdd(js[js[id].mParent].mPos,
                                  VRot(js[id].mLocalPos, js[js[id].mParent].mRot))
            /\ js[id].mRot = js[js[id].mParent].mRot
       ELSE /\ js[id].mPos = js[id].mLocalPos
            /\ js[id].mRot = js[id].mLocalRot

\* C12: after resetSkeleton() every joint of the skeleton is in its rest
\* pose (identity local rotation, local position and bone of the scaled
\* rest geometry, world transform derived from the parent), whatever the
\* ids of the joints and whether or not the joints are active.
C12_ResetRestoresRestPose ==
    [][(\E segv \in BOOLEAN : ResetSkeleton(segv))
          => \A id \in DOMAIN joints' : restPose(joints', id)]_vars

(***************************************************************************)
(* SpecUpdateFrom: a.updateFrom(b) is called on Configs a and b made with  *)
(* the setters of Config.  operand is <<a, b>>, result[1] the Config a     *)
(* after the call.                                                         *)
(***************************************************************************)
MergeConfigs ==
    {NoConfig,
     ConfigSetLocalPos(NoConfig, PointX), ConfigSetLocalPos(NoConfig, PointY),
     ConfigSetLocalRot(NoConfig, QuarterTurnZ),
     ConfigSetLocalScale(NoConfig, ScaleHalfMore),
     ConfigSetTargetPos(NoConfig, PointX), ConfigSetTargetPos(NoConfig, PointY),
     ConfigSetTargetRot(NoConfig, QuarterTurnZ),
     ConfigSetTargetRot(ConfigSetTargetPos(NoConfig, PointY), QuarterTurnZ),
     ConfigDisableConstraint(ConfigSetLocalRot(NoConfig, QIdentity)),
     ConfigDelegate(ConfigSetTargetPos(NoConfig, PointX))}

UpdateFromInit ==
    /\ SolverConstructed
    /\ operand \in MergeConfigs \X MergeConfigs
    /\ result = NO_CALL
    /\ mConstraints = <<>>

\* a.updateFrom(b)
UpdateFrom ==
    /\ operand # NO_CALL
    /\ result = NO_CALL
    /\ result' = <<updateFrom(operand[1], operand[2])>>
    /\ UNCHANGED <<operand, mConstraints, joints, mSkeleton, mRootID, mJointConfigs, chainVars, mSubBaseIds,
                   mSubRootIds, mAcceptableError, mLastError, solveVars, configs_arg,
                   something_changed>>

UpdateFromNext == UpdateFrom

SpecUpdateFrom == UpdateFromInit /\ [][UpdateFromNext]_vars

\* the payload of Config r guarded by flag is that of b if b has the
\* flag, and that of a otherwise
mergedPayload(a, b, r, flag, field) ==
    r[field] = IF flag \in b.mFlags THEN b[field] ELSE a[field]

\* C13: after a.updateFrom(b) with different flag sets the flags of a
\* are its old flags or-ed with those of b, bit by bit, every payload that
\* b has is that of b and every other payload is the old one of a; with
\* equal flag sets a is a copy of b.
C13_UpdateFromMerges ==
    result # NO_CALL =>
        IF operand[1].mFlags = operand[2].mFlags
        THEN result[1] = operand[2]
        ELSE /\ result[1].mFlags = operand[1].mFlags \cup operand[2].mFlags
             /\ mergedPayload(operand[1], operand[2], result[1], CONFIG_FLAG_LOCAL_POS, "mLocalPos")
             /\ mergedPayload(operand[1], operand[2], result[1], CONFIG_FLAG_LOCAL_ROT, "mLocalRot")
             /\ mergedPayload(operand[1], operand[2], result[1], CONFIG_FLAG_LOCAL_SCALE, "mLocalScale")
             /\ mergedPayload(operand[1], operand[2], result[1], CONFIG_FLAG_TARGET_POS, "mTargetPos")
             /\ mergedPayload(operand[1], operand[2], result[1], CONFIG_FLAG_TARGET_ROT, "mTargetRot")

(***************************************************************************)
(* LLIKConstraintFactory.  A constraint definition is the LLSD map the     *)
(* factory reads, with every key a variant reads; angles of a definition   *)
(* are in degrees.  A Constraint is the record of the members its          *)
(* constructor sets.  generateHash is the sequence of the values it        *)
(* combines: hash_combine is taken to be free of collisions.               *)
(***************************************************************************)
SIMPLE_CONE_CONSTRAINT == "SIMPLE_CONE_CONSTRAINT"

TWIST_LIMITED_CONE_CONSTRAINT == "TWIST_LIMITED_CONE_CONSTRAINT"

SHOULDER_CONSTRAINT == "SHOULDER_CONSTRAINT"

KNEE_CONSTRAINT == "KNEE_CONSTRAINT"

ACUTE_ELLIPSOIDAL_CONE_CONSTRAINT == "ACUTE_ELLIPSOIDAL_CONE_CONSTRAINT"

DOUBLE_LIMITED_HINGE_CONSTRAINT == "DOUBLE_LIMITED_HINGE_CONSTRAINT"

SIMPLE_CONE_CONSTRAINT_NAME == "SIMPLE_CONE"

TWIST_LIMITED_CONE_CONSTRAINT_NAME == "TWIST_LIMITED_CONE"

SHOULDER_CONSTRAINT_NAME == "SHOULDER"

ELBOW_CONSTRAINT_NAME == "ELBOW"

KNEE_CONSTRAINT_NAME == "KNEE"

ACUTE_ELLIPSOIDAL_CONE_CONSTRAINT_NAME == "ACUTE_ELLIPSOIDAL_CONE"

DOUBLE_LIMITED_HINGE_CONSTRAINT_NAME == "DOUBLE_LIMITED_HINGE"

\* asReal() * DEG_TO_RAD
DegToRad(degrees) == degrees * (F_PI \div 180)

\* Constraint::Constraint(type, parameters): mForward
ConstraintForward(parameters) == VNormalize(parameters.forward_axis)

\* SimpleCone::SimpleCone(LLSD)
SimpleConeOf(parameters) ==
    LET max_angle == DegToRad(Abs(parameters.max_angle))
    IN  [mType |-> SIMPLE_CONE_CONSTRAINT, mForward |-> ConstraintForward(parameters),
         mMaxAngle |-> max_angle,
         mCosConeAngle |-> Cos(max_angle), mSinConeAngle |-> Sin(max_angle)]

\* TwistLimitedCone::TwistLimitedCone(LLSD)
TwistLimitedConeOf(parameters) ==
    LET cone_angle == DegToRad(parameters.cone_angle)
        twist == compute_angle_limits(DegToRad(parameters.min_twist),
                                      DegToRad(parameters.max_twist))
    IN  [mType |-> TWIST_LIMITED_CONE_CONSTRAINT, mForward |-> ConstraintForward(parameters),
         mConeAngle |-> cone_angle,
         mCosConeAngle |-> Cos(cone_angle), mSinConeAngle |-> Sin(cone_angle),
         mMinTwist |-> twist[1], mMaxTwist |-> twist[2]]

\* ShoulderConstraint::ShoulderConstraint(LLSD)
ShoulderConstraintOf(parameters) ==
    [mType |-> SHOULDER_CONSTRAINT, mForward |-> ConstraintForward(parameters),
     mConeAxis |-> VNormalize(VSub(VAdd(ConstraintForward(parameters), x_axis),
                                   VScale(z_axis, (3 * SCALE) \div 2)))]

\* mPivotAxis of the elbow and of the knee
PivotAxisOf(parameters) ==
    VNormalize(VCross(ConstraintForward(parameters),
                      VCross(parameters.pivot_axis, ConstraintForward(parameters))))

\* ElbowConstraint::ElbowConstraint(LLSD)
ElbowConstraintOf(parameters) ==
    LET bend == compute_angle_limits(DegToRad(parameters.min_bend),
                                     DegToRad(parameters.max_bend))
        twist == compute_angle_limits(DegToRad(parameters.min_twist),
                                      DegToRad(parameters.max_twist))
    IN  [mType |-> ELBOW_CONSTRAINT, mForward |-> ConstraintForward(parameters),
         mPivotAxis |-> PivotAxisOf(parameters),
         mPivotXForward |-> VCross(PivotAxisOf(parameters), ConstraintForward(parameters)),
         mMinBend |-> bend[1], mMaxBend |-> bend[2],
         mMinTwist |-> twist[1], mMaxTwist |-> twist[2]]

\* KneeConstraint::KneeConstraint(LLSD)
KneeConstraintOf(parameters) ==
    LET bend == compute_angle_limits(DegToRad(parameters.min_bend),
                                     DegToRad(parameters.max_bend))
    IN  [mType |-> KNEE_CONSTRAINT, mForward |-> ConstraintForward(parameters),
         mPivotAxis |-> PivotAxisOf(parameters),
         mPivotXForward |-> VCross(PivotAxisOf(parameters), ConstraintForward(parameters)),
         mMinBend |-> bend[1], mMaxBend |-> bend[2]]

\* std::abs(x / forward)
AbsRatio(x, forward) == Abs(RDiv(x * SCALE, Abs(forward)))

\* 1 / std::sqrt(t * t + 1)
QuadrantCos(t) == RDiv(SCALE * SCALE, Sqrt(t * t + SCALE * SCALE))

\* the members AcuteEllipsoidalCone caches from up, left, down and right
AcuteQuadrants(c, up, left, down, right) ==
    [mType |-> c.mType, mForward |-> c.mForward, mUp |-> c.mUp, mLeft |-> c.mLeft,
     mXForward |-> c.mXForward, mXUp |-> c.mXUp, mXDown |-> c.mXDown,
     mXLeft |-> c.mXLeft, mXRight |-> c.mXRight,
     mQuadrantScales |-> <<RDiv(up * SCALE, right), RDiv(up * SCALE, left),
                           RDiv(down * SCALE, left), RDiv(down * SCALE, right)>>,
     mQuadrantCosAngles |-> <<QuadrantCos(up), QuadrantCos(up),
                              QuadrantCos(down), QuadrantCos(down)>>,
     mQuadrantCotAngles |-> <<RDiv(SCALE * SCALE, up), RDiv(SCALE * SCALE, up),
                              RDiv(SCALE * SCALE, down), RDiv(SCALE * SCALE, down)>>]

\* the axes of AcuteEllipsoidalCone: mUp, the readjusted mForward, mLeft
AcuteAxes(parameters, up_axis) ==
    LET forward == VNormalize(VCross(VCross(up_axis, ConstraintForward(parameters)), up_axis))
    IN  [mType |-> ACUTE_ELLIPSOIDAL_CONE_CONSTRAINT, mForward |-> forward,
         mUp |-> up_axis, mLeft |-> VCross(up_axis, forward),
         mXForward |-> parameters.forward, mXUp |-> parameters.up,
         mXDown |-> parameters.down, mXLeft |-> parameters.left,
         mXRight |-> parameters.right]

\* AcuteEllipsoidalCone::AcuteEllipsoidalCone(LLSD)
AcuteEllipsoidalConeOf(parameters) ==
    AcuteQuadrants(AcuteAxes(parameters, VNormalize(parameters.up_axis)),
                   AbsRatio(parameters.up, parameters.forward),
                   AbsRatio(parameters.left, parameters.forward),
                   AbsRatio(parameters.down, parameters.forward),
                   AbsRatio(parameters.right, parameters.forward))

\* a pitch kept in [-PI/2, PI/2]
HingePitch(pitch) ==
    LET p == remove_multiples_of_two_pi(pitch)
    IN  IF p > F_PI \div 2 THEN F_PI \div 2
        ELSE IF p < -(F_PI \div 2) THEN -(F_PI \div 2) ELSE p

\* DoubleLimitedHinge::DoubleLimitedHinge(LLSD)
DoubleLimitedHingeOf(parameters) ==
    LET forward == ConstraintForward(parameters)
        up == VNormalize(VCross(forward, VCross(parameters.up_axis, forward)))
        yaw == compute_angle_limits(DegToRad(parameters.min_yaw), DegToRad(parameters.max_yaw))
        min_pitch == HingePitch(DegToRad(parameters.min_pitch))
        max_pitch == HingePitch(DegToRad(parameters.max_pitch))
    IN  [mType |-> DOUBLE_LIMITED_HINGE_CONSTRAINT, mForward |-> forward,
         mUp |-> up, mLeft |-> VCross(up, forward),
         mMinYaw |-> yaw[1], mMaxYaw |-> yaw[2],
         mMinPitch |-> IF min_pitch > max_pitch THEN max_pitch ELSE min_pitch,
         mMaxPitch |-> IF min_pitch > max_pitch THEN min_pitch ELSE max_pitch]

\* LLIKConstraintFactory::create: NoConstraint is the null pointer
create(data) ==
    IF data.type = SIMPLE_CONE_CONSTRAINT_NAME THEN SimpleConeOf(data)
    ELSE IF data.type = TWIST_LIMITED_CONE_CONSTRAINT_NAME THEN TwistLimitedConeOf(data)
    ELSE IF data.type = SHOULDER_CONSTRAINT_NAME THEN ShoulderConstraintOf(data)
    ELSE IF data.type = ELBOW_CONSTRAINT_NAME THEN ElbowConstraintOf(data)
    ELSE IF data.type = KNEE_CONSTRAINT_NAME THEN KneeConstraintOf(data)
    ELSE IF data.type = ACUTE_ELLIPSOIDAL_CONE_CONSTRAINT_NAME THEN AcuteEllipsoidalConeOf(data)
    ELSE IF data.type = DOUBLE_LIMITED_HINGE_CONSTRAINT_NAME THEN DoubleLimitedHingeOf(data)
    ELSE NoConstraint

\* Constraint::generateHash and its override in each variant
generateHash(c) ==
    <<c.mType, c.mForward>> \o
    CASE c.mType = SIMPLE_CONE_CONSTRAINT -> <<c.mMaxAngle>>
      [] c.mType = TWIST_LIMITED_CONE_CONSTRAINT -> <<c.mConeAngle, c.mMinTwist, c.mMaxTwist>>
      [] c.mType = SHOULDER_CONSTRAINT -> <<>>
      [] c.mType = ELBOW_CONSTRAINT ->
            <<c.mPivotAxis, c.mMinBend, c.mMaxBend, c.mMinTwist, c.mMaxTwist>>
      [] c.mType = KNEE_CONSTRAINT -> <<c.mPivotAxis, c.mMinBend, c.mMaxBend>>
      [] c.mType = ACUTE_ELLIPSOIDAL_CONE_CONSTRAINT ->
            <<c.mUp, c.mXForward, c.mXUp, c.mXDown, c.mLeft, c.mXRight>>
      [] c.mType = DOUBLE_LIMITED_HINGE_CONSTRAINT ->
            <<c.mUp, c.mMinYaw, c.mMaxYaw, c.mMinPitch, c.mMaxPitch>>

\* mConstraints after getConstraint stored or found the Constraint of hash id
constraintsWith(constraints, id, ptr) ==
    IF id \in DOMAIN constraints THEN constraints
    ELSE [h \in DOMAIN constraints \cup {id} |-> IF h = id THEN ptr ELSE constraints[h]]

\* LLIKConstraintFactory::getConstraint: operand is <<constraint_def>>,
\* result[1] the Constraint returned
GetConstraint(constraint_def, ptr) ==
    /\ operand' = <<constraint_def>>
    /\ IF ptr = NoConstraint
       THEN /\ result' = <<NoConstraint>>
            /\ mConstraints' = mConstraints
       ELSE /\ mConstraints' = constraintsWith(mConstraints, generateHash(ptr), ptr)
            /\ result' = <<mConstraints'[generateHash(ptr)]>>
    /\ UNCHANGED <<joints, mSkeleton, mRootID, mJointConfigs, chainVars, mSubBaseIds,
                   mSubRootIds, mAcceptableError, mLastError, pc, loop, max_error, todo,
                   solves, solved_configs, configs_arg, something_changed>>

(***************************************************************************)
(* SpecFactory: the factory is asked for constraints of every variant,     *)
(* from a definition and from definitions that differ from it in one       *)
(* parameter, until it holds MaxConstraints shared instances.              *)
(***************************************************************************)
MaxConstraints == 2

FactoryTypes ==
    {SIMPLE_CONE_CONSTRAINT_NAME, TWIST_LIMITED_CONE_CONSTRAINT_NAME, SHOULDER_CONSTRAINT_NAME,
     ELBOW_CONSTRAINT_NAME, KNEE_CONSTRAINT_NAME, ACUTE_ELLIPSOIDAL_CONE_CONSTRAINT_NAME,
     DOUBLE_LIMITED_HINGE_CONSTRAINT_NAME, "HINGE"}

FactoryDef ==
    [type |-> "HINGE", forward_axis |-> x_axis, pivot_axis |-> z_axis, up_axis |-> z_axis,
     max_angle |-> 30, cone_angle |-> 30, min_twist |-> -20, max_twist |-> 20,
     min_bend |-> 0, max_bend |-> 90, min_yaw |-> -30, max_yaw |-> 30,
     min_pitch |-> -10, max_pitch |-> 10,
     forward |-> SCALE, up |-> SCALE \div 2, down |-> SCALE \div 2,
     left |-> SCALE \div 2, right |-> SCALE \div 2]

\* a key of the definition and another value for it
FactoryChanges ==
    {<<"forward_axis", y_axis>>, <<"pivot_axis", y_axis>>, <<"up_axis", y_axis>>,
     <<"max_angle", 45>>, <<"cone_angle", 45>>, <<"min_twist", -40>>, <<"max_twist", 40>>,
     <<"min_bend", 10>>, <<"max_bend", 120>>, <<"min_yaw", -60>>, <<"max_yaw", 60>>,
     <<"min_pitch", -20>>, <<"max_pitch", 20>>,
     <<"forward", 2 * SCALE>>, <<"up", SCALE>>, <<"down", SCALE>>,
     <<"left", SCALE>>, <<"right", SCALE>>}

FactoryDefs ==
    {[FactoryDef EXCEPT !.type = t] : t \in FactoryTypes}
    \cup {[FactoryDef EXCEPT !.type = t, ![ch[1]] = ch[2]] :
            t \in FactoryTypes, ch \in FactoryChanges}

FactoryNext ==
    \E constraint_def \in FactoryDefs :
        /\ Cardinality(DOMAIN mConstraints) < MaxConstraints
        /\ \E ptr \in {create(constraint_def)} : GetConstraint(constraint_def, ptr)

SpecFactory == InitSolver /\ [][FactoryNext]_vars

\* C14: the Constraint getConstraint returns for a definition has the type and
\* every parameter of that definition: the members of the instance returned are
\* those the constructor of the variant gives the definition, so a definition
\* never gets the shared instance of one that differs from it in a parameter.
C14_SharedOnlyIfEqual ==
    (operand # NO_CALL /\ result # NO_CALL) => result[1] = create(operand[1])

(***************************************************************************)
(* SpecRoots: a chain of four joints 0..3 along x, each one unit from its  *)
(* parent.  With joint 2 a sub-root, a rotation of the root 0 and a        *)
(* position target on joint 3, solve() has the two active roots 0 and 2;   *)
(* with a chain limit of one joint on the target of joint 3 and a target   *)
(* on joint 1, the active roots 0 and 3.  mActiveRoots is a std::set of    *)
(* pointers: the loops over it visit the roots in the order of their       *)
(* addresses, any order here.                                              *)
(***************************************************************************)
RootsCalls ==
    <<<<0, NULL, InfoAtOrigin, NoConstraint>>,
      <<1, 0, InfoAlongX, NoConstraint>>,
      <<2, 1, InfoAlongX, NoConstraint>>,
      <<3, 2, InfoAlongX, NoConstraint>>>>

RootsTargetsOuter == {<<2 * SCALE, SCALE, 0>>, <<SCALE, 2 * SCALE, 0>>}

\* Config::setChainLimit
ConfigSetChainLimit(c, limit) == [c EXCEPT !.mChainLimit = limit]

\* a position target on joint 3, alone, with a local or target rotation of the
\* root, or with a chain limit of one joint and a position target on joint 1
RootsConfigs ==
    {(3 :> ConfigSetTargetPos(NoConfig, t)) : t \in RootsTargetsOuter}
    \cup {(0 :> ConfigSetLocalRot(NoConfig, QuarterTurnZ))
             @@ (3 :> ConfigSetTargetPos(NoConfig, t)) : t \in RootsTargetsOuter}
    \cup {(0 :> ConfigSetTargetRot(NoConfig, QuarterTurnZ))
             @@ (3 :> ConfigSetTargetPos(NoConfig, t)) : t \in RootsTargetsOuter}
    \cup {(1 :> ConfigSetTargetPos(NoConfig, <<0, SCALE, 0>>))
             @@ (3 :> ConfigSetChainLimit(ConfigSetTargetPos(NoConfig, t), 1)) :
             t \in RootsTargetsOuter}

RootsGarbage == {VZero}

RootsNext ==
    \/ SetSubRootIds({2})
    \/ \E configs \in RootsConfigs : UpdateJointConfigs(configs)
    \/ solves < MaxSolves /\ \E segv \in BOOLEAN : Solve(segv)
    \/ SolveSteps(RootsGarbage)

RootsInit == InitSkeleton(0, RootsCalls)

SpecRoots == RootsInit /\ [][RootsNext]_vars

\* the loop of solve() over mActiveRoots visiting first, then second
relaxedInOrder(js, first, second) ==
    relaxRotationsRecursively(relaxRotationsRecursively(js, first, INITIAL_RELAXATION_FACTOR),
                              second, INITIAL_RELAXATION_FACTOR)

\* the loop of executeFabrikPass over mActiveRoots visiting first, then second
childrenUpdatedInOrder(js, first, second) ==
    updateChildLocalRots(updateChildLocalRots(js, first, 1), second, 1)

\* C15: the joints a solve leaves do not depend on the order in which the
\* loops over the active roots visit them: wherever one of these loops has two
\* roots still to visit, visiting them in either order leaves the same joints.
\* (Every other step of a solve is a function of the joints, of the config map
\* and of the chain map, which are keyed by joint id.)
C15_RootOrderIrrelevant ==
    /\ pc = "relax" =>
          \A r1 \in todo, r2 \in todo :
              relaxedInOrder(joints, r1, r2) = relaxedInOrder(joints, r2, r1)
    /\ pc = "roots" =>
          \A r1 \in todo, r2 \in todo :
              childrenUpdatedInOrder(joints, r1, r2) = childrenUpdatedInOrder(joints, r2, r1)

\* a solve is about to relax two active roots, and relaxing either of them
\* moves joints
C15_TwoRootsToRelax ==
    /\ pc = "relax"
    /\ Cardinality(todo) = 2
    /\ \A root \in todo :
          relaxRotationsRecursively(joints, root, INITIAL_RELAXATION_FACTOR) # joints

\* C15 as stated: the order in which the active roots are visited is a function
\* of the joint ids, so that a loop over the active roots never has a choice of
\* the root it visits next.
C15_RootsVisitedByIds ==
    pc \in {"relax", "roots"} => Cardinality(todo) <= 1

(***************************************************************************)
(* Properties of the constraints after solve() (SpecSolve).                *)
(***************************************************************************)
\* the Joint has a Constraint that its Config does not disable
hasEnabledConstraint(j) ==
    j.mConstraint.mType # NULL_CONSTRAINT /\ ~hasDisabledConstraint(j)

\* the Constraint of the Joint id accepts its local rotation unchanged
constraintAccepts(js, id) ==
    almost_equal(ElbowComputeAdjustedLocalRot(js[id].mConstraint, js[id].mLocalRot),
                 js[id].mLocalRot)

\* C16: after every solve, every joint with a constraint that its config does
\* not disable has a local rotation which computeAdjustedLocalRot of the
\* constraint returns unchanged, up to almost_equal.
C16_ConstraintsAcceptLocalRots ==
    solveReturned =>
        \A id \in DOMAIN joints :
            hasEnabledConstraint(joints[id]) => constraintAccepts(joints, id)

(***************************************************************************)
(* SpecReach: the chain of four joints of SpecRoots, without sub-roots.    *)
(* The outer joint 3, whose end is four units from the root along the      *)
(* chain, gets one position target at a distance of at most three units    *)
(* from the root.  The acceptable error is set before the first solve()    *)
(* or left at its default.                                                 *)
(***************************************************************************)
ReachTargets ==
    {<<2 * SCALE, SCALE, 0>>, <<SCALE, 2 * SCALE, 0>>, <<0, 3 * SCALE, 0>>, <<SCALE, 0, 0>>}

ReachConfigs == {(3 :> ConfigSetTargetPos(NoConfig, t)) : t \in ReachTargets}

\* an acceptable error of a hundredth of a unit, ten times the rounding of
\* a position
ReachError == SCALE \div 100

ReachGarbage == {VZero}

ReachNext ==
    \/ \E configs \in ReachConfigs : UpdateJointConfigs(configs)
    \/ solves = 0 /\ SetAcceptableError(ReachError)
    \/ solves < MaxSolves /\ \E segv \in BOOLEAN : Solve(segv)
    \/ SolveSteps(ReachGarbage)

ReachInit == InitSkeleton(0, RootsCalls)

SpecReach == ReachInit /\ [][ReachNext]_vars

\* the length of the chain from its inner end to the end of its outer joint
RECURSIVE chainLength(_, _)
chainLength(js, chain) ==
    IF chain = <<>> THEN 0
    ELSE js[Head(chain)].mLocalPosLength + chainLength(js, Tail(chain))
         + (IF Len(chain) = Len(mChainMap[3]) THEN VLength(js[Head(chain)].mBone) ELSE 0)

\* solve() has returned from a call on one chain, from joint 3 to the root,
\* with one position target, no farther from the root than the chain is long,
\* and an acceptable error of ReachError
reachableTargetSolved ==
    /\ solveReturned
    /\ mAcceptableError = ReachError
    /\ DOMAIN mChainMap = {3}
    /\ mJointConfigs = solved_configs[solves]
    /\ dist_vec(mJointConfigs[3].mTargetPos, joints[mRootID].mPos)
          <= chainLength(joints, mChainMap[3])

\* C17: for one unbranched chain with one position target on its outer joint,
\* placed within the total length of the chain, solve() makes at most
\* MAX_SOLVER_ITERATIONS passes and returns a max error that is at most the
\* acceptable error.
C17_ReachableTargetIsReached ==
    reachableTargetSolved => (loop <= MAX_SOLVER_ITERATIONS /\ mLastError <= mAcceptableError)

(***************************************************************************)
(* computeAdjustedLocalRot of the cones and of the hinge, in the order of  *)
(* the code.  A length below MIN_PERP_LENGTH is a length of 0 here.        *)
(***************************************************************************)
\* std::sqrt(std::max(1 - x * x, 0))
CoComponent(x) == IF SCALE * SCALE - x * x > 0 THEN Sqrt(SCALE * SCALE - x * x) ELSE 0

\* std::acos
Acos(x) == Atan2(CoComponent(x), x)

\* forward projected onto the surface of the cone
ConeProjection(c, forward, forward_component) ==
    VAdd(VScale(c.mForward, c.mCosConeAngle),
         VScale(VNormalize(VSub(forward, VScale(c.mForward, forward_component))),
                c.mSinConeAngle))

SimpleConeRotForward(c, joint_local_rot, forward, forward_component) ==
    IF forward_component < c.mCosConeAngle
    THEN QNormalize(QMul(joint_local_rot,
                         shortestArc(forward, ConeProjection(c, forward, forward_component))))
    ELSE joint_local_rot

\* LLIK::SimpleCone::computeAdjustedLocalRot
SimpleConeComputeAdjustedLocalRot(c, joint_local_rot) ==
    SimpleConeRotForward(c, joint_local_rot, VRot(c.mForward, joint_local_rot),
                         VDot(VRot(c.mForward, joint_local_rot), c.mForward))

\* the end of TwistLimitedCone::computeAdjustedLocalRot: the twist is clamped
TwistConeUntwist(c, adjusted_local_rot, perp_x, bent_perp_y, rotated_perp_x, twist, new_twist) ==
    IF new_twist # twist
    THEN QNormalize(QMul(adjusted_local_rot,
                         shortestArc(rotated_perp_x,
                                     VAdd(VScale(perp_x, Cos(new_twist)),
                                          VScale(bent_perp_y, Sin(new_twist))))))
    ELSE adjusted_local_rot

TwistConeClamp(c, adjusted_local_rot, perp_x, bent_perp_y, rotated_perp_x, twist) ==
    TwistConeUntwist(c, adjusted_local_rot, perp_x, bent_perp_y, rotated_perp_x, twist,
                     compute_clamped_angle(twist, c.mMinTwist, c.mMaxTwist))

\* the twist angle from the components of rotated_perp_x
TwistConeTwist(c, adjusted_local_rot, perp_x, bent_perp_y, rotated_perp_x) ==
    TwistConeClamp(c, adjusted_local_rot, perp_x, bent_perp_y, rotated_perp_x,
                   Atan2(VDot(rotated_perp_x, perp_x), VDot(rotated_perp_x, bent_perp_y)))

\* perp_y rotated into the bent frame, perp_x rotated into the joint frame
TwistConeAxes(c, adjusted_local_rot, forward, forward_component, perp_x) ==
    TwistConeTwist(c, adjusted_local_rot, perp_x,
                   VRot(VCross(forward, perp_x), setAngleAxis(Acos(forward_component), perp_x)),
                   VRot(perp_x, adjusted_local_rot))

\* perp_x before it is normalized
TwistConePerpX(c, forward) ==
    IF VLength(VCross(c.mForward, forward)) > 0 THEN VCross(c.mForward, forward)
    ELSE IF VLength(VCross(x_axis, forward)) > 0 THEN VCross(x_axis, forward)
    ELSE VCross(forward, y_axis)

TwistConePerp(c, adjusted_local_rot, forward, forward_component) ==
    TwistConeAxes(c, adjusted_local_rot, forward, forward_component,
                  VNormalize(TwistConePerpX(c, forward)))

\* forward and forward_component recomputed after the projection
TwistConeProjected(c, joint_local_rot, forward, new_forward) ==
    TwistConePerp(c, QNormalize(QMul(joint_local_rot, shortestArc(forward, new_forward))),
                  new_forward, VDot(new_forward, c.mForward))

TwistConeForward(c, joint_local_rot, forward, forward_component) ==
    IF forward_component < c.mCosConeAngle
    THEN TwistConeProjected(c, joint_local_rot, forward,
                            ConeProjection(c, forward, forward_component))
    ELSE TwistConePerp(c, joint_local_rot, forward, forward_component)

\* LLIK::TwistLimitedCone::computeAdjustedLocalRot
TwistLimitedConeComputeAdjustedLocalRot(c, joint_local_rot) ==
    TwistConeForward(c, joint_local_rot, VRot(c.mForward, joint_local_rot),
                     VDot(VRot(c.mForward, joint_local_rot), c.mForward))

\* the end of DoubleLimitedHinge::computeAdjustedLocalRot
HingeRotApply(adjusted_local_rot, forward, new_forward) ==
    QNormalize(IF dist_vec(forward, new_forward) > 1
               THEN QMul(adjusted_local_rot, shortestArc(forward, new_forward))
               ELSE adjusted_local_rot)

HingeRotNewForward(c, adjusted_local_rot, forward, horizontal_axis, up_component) ==
    HingeRotApply(adjusted_local_rot, forward,
                  VNormalize(VAdd(VScale(horizontal_axis, CoComponent(up_component)),
                                  VScale(c.mUp, up_component))))

HingeRotPitched(c, adjusted_local_rot, forward, up_component, horizontal_axis, pitch, new_pitch) ==
    HingeRotNewForward(c, adjusted_local_rot, forward, horizontal_axis,
                       IF new_pitch # pitch THEN -Sin(new_pitch) ELSE up_component)

\* pitch
HingeRotPitch(c, adjusted_local_rot, forward, up_component, horizontal_axis, pitch) ==
    HingeRotPitched(c, adjusted_local_rot, forward, up_component, horizontal_axis, pitch,
                    compute_clamped_angle(pitch, c.mMinPitch, c.mMaxPitch))

HingeRotYawed(c, adjusted_local_rot, forward, up_component, horizontal_axis, yaw, new_yaw) ==
    HingeRotPitch(c, adjusted_local_rot, forward, up_component,
                  IF new_yaw # yaw
                  THEN VAdd(VScale(c.mForward, Cos(new_yaw)), VScale(c.mLeft, Sin(new_yaw)))
                  ELSE VNormalize(horizontal_axis),
                  Atan2(-up_component, CoComponent(up_component)))

\* yaw
HingeRotYaw(c, adjusted_local_rot, forward, up_component, horizontal_axis, yaw) ==
    HingeRotYawed(c, adjusted_local_rot, forward, up_component, horizontal_axis, yaw,
                  compute_clamped_angle(yaw, c.mMinYaw, c.mMaxYaw))

HingeRotHorizontal(c, adjusted_local_rot, forward, up_component, horizontal_axis) ==
    HingeRotYaw(c, adjusted_local_rot, forward, up_component, horizontal_axis,
                Atan2(VDot(horizontal_axis, c.mLeft), VDot(horizontal_axis, c.mForward)))

HingeRotForward(c, adjusted_local_rot, forward, up_component) ==
    HingeRotHorizontal(c, adjusted_local_rot, forward, up_component,
                       VSub(forward, VScale(c.mUp, up_component)))

HingeRotUntwisted(c, adjusted_local_rot) ==
    HingeRotForward(c, adjusted_local_rot, VRot(c.mForward, adjusted_local_rot),
                    VDot(VRot(c.mForward, adjusted_local_rot), c.mUp))

\* twist: the rotated mLeft axis is brought back into the horizontal plane
HingeRotLeft(c, joint_local_rot, joint_left) ==
    HingeRotUntwisted(c, QMul(joint_local_rot,
                              shortestArc(joint_left,
                                          VSub(joint_left,
                                               VScale(c.mUp, VDot(joint_left, c.mUp))))))

\* LLIK::DoubleLimitedHinge::computeAdjustedLocalRot
DoubleLimitedHingeComputeAdjustedLocalRot(c, joint_local_rot) ==
    HingeRotLeft(c, joint_local_rot, VRot(c.mLeft, joint_local_rot))

\* Constraint::computeAdjustedLocalRot, by the variant of the Constraint
computeAdjustedLocalRot(c, joint_local_rot) ==
    CASE c.mType = SIMPLE_CONE_CONSTRAINT -> SimpleConeComputeAdjustedLocalRot(c, joint_local_rot)
      [] c.mType = TWIST_LIMITED_CONE_CONSTRAINT ->
            TwistLimitedConeComputeAdjustedLocalRot(c, joint_local_rot)
      [] c.mType = ELBOW_CONSTRAINT -> ElbowComputeAdjustedLocalRot(c, joint_local_rot)
      [] c.mType = DOUBLE_LIMITED_HINGE_CONSTRAINT ->
            DoubleLimitedHingeComputeAdjustedLocalRot(c, joint_local_rot)

(***************************************************************************)
(* SpecProject: computeAdjustedLocalRot of a constraint is applied to a    *)
(* unit quaternion and then to its own result.  operand is <<constraint,   *)
(* quaternion>>, result the sequence of the rotations returned.            *)
(***************************************************************************)
ProjectAxes == {x_axis, y_axis, z_axis, <<SCALE, SCALE, 0>>, <<0, SCALE, SCALE>>,
                <<SCALE, SCALE, SCALE>>}

\* the angles of the rotations: multiples of 30 degrees
ProjectAngles == {i * (F_PI \div 6) : i \in -3..4}

ProjectRots == {setAngleAxis(angle, axis) : angle \in ProjectAngles, axis \in ProjectAxes}

ProjectConstraints ==
    {create([FactoryDef EXCEPT !.type = t]) :
        t \in {SIMPLE_CONE_CONSTRAINT_NAME, TWIST_LIMITED_CONE_CONSTRAINT_NAME,
               ELBOW_CONSTRAINT_NAME, DOUBLE_LIMITED_HINGE_CONSTRAINT_NAME}}
    \cup {ArmElbow}

ProjectInit ==
    /\ SolverConstructed
    /\ operand \in ProjectConstraints \X ProjectRots
    /\ result = NO_CALL
    /\ mConstraints = <<>>

\* the number of applications of computeAdjustedLocalRot
MaxProjections == 2

ComputeAdjustedLocalRot ==
    /\ operand # NO_CALL
    /\ Len(result) < MaxProjections
    /\ result' = Append(result,
                        computeAdjustedLocalRot(operand[1],
                                                IF result = <<>> THEN operand[2]
                                                ELSE result[Len(result)]))
    /\ UNCHANGED <<operand, mConstraints, joints, mSkeleton, mRootID, mJointConfigs, chainVars,
                   mSubBaseIds, mSubRootIds, mAcceptableError, mLastError, pc, loop, max_error,
                   todo, solves, solved_configs, configs_arg, something_changed>>

ProjectNext == ComputeAdjustedLocalRot

SpecProject == ProjectInit /\ [][ProjectNext]_vars

\* the tolerance of the comparison of two rotations: what two steps of the
\* table of angles, of half a degree each, make of a component
ProjectTolerance == SCALE \div 100

\* C18: for every constraint variant and every unit quaternion q,
\* computeAdjustedLocalRot applied to its own result returns that result, up
\* to the tolerance.
C18_ProjectionIdempotent ==
    Len(result) >= 2 => almost_equal_tol(result[2], result[1], ProjectTolerance)

(***************************************************************************)
(* The flags of the joints that the configurations no longer name.         *)
(***************************************************************************)
\* the joints of the chains of the chain map
jointsOnChains ==
    {id \in DOMAIN joints :
        \E k \in DOMAIN mChainMap : \E i \in DOMAIN mChainMap[k] : mChainMap[k][i] = id}

\* a joint as resetFlags leaves it
flagsAreReset(j) ==
    /\ ~isActive(j)
    /\ j.mConfigFlags = {}
    /\ j.mConfig = NULL
    /\ localRotLocked(j) => j.mParent = NULL

\* C19: at the end of every rebuildAllChains, every joint that has no entry
\* in the current config map and lies on no current chain is inactive, has
\* no config flags and no config pointer and, unless it has no parent, is
\* not local-rot-locked.
C19_NoStaleFlags ==
    pc = "relax" =>
        \A id \in DOMAIN joints :
            (id \notin DOMAIN mJointConfigs /\ id \notin jointsOnChains)
                => flagsAreReset(joints[id])

(***************************************************************************)
(* The inner ends of the chains.                                           *)
(***************************************************************************)
\* the inner (last) joint of the chain of key k
innerEnd(k) == mChainMap[k][Len(mChainMap[k])]

\* the joint is the outer (first) joint of a chain other than the chain of key k
outerEndOfAnother(id, k) ==
    \E other \in DOMAIN mChainMap \ {k} : mChainMap[other][1] = id

\* C20: after rebuildAllChains the inner (last) joint of every chain is the
\* outer (first) joint of another chain of the chain map or a member of the
\* active roots.
C20_InnerEndIsAnchored ==
    pc = "relax" =>
        \A k \in DOMAIN mChainMap :
            outerEndOfAnother(innerEnd(k), k) \/ innerEnd(k) \in mActiveRoots

(***************************************************************************)
(* SpecLimit: the chain of four joints 0..3 of SpecRoots.  Joint 3 has a   *)
(* position target with a chain limit of 1, 2 or 3 joints or the default   *)
(* limit, joint 1 has a position target or one of the joints 0 (the root)  *)
(* and 2 a target rotation or neither, joint 2 is a sub-root or not, and   *)
(* the whitelist of sub-bases is empty or names joint 1.                   *)
(***************************************************************************)
LimitChainLimits == {1, 2, 3, DEFAULT_CHAIN_LIMIT}

LimitConfigs ==
    {(3 :> ConfigSetChainLimit(ConfigSetTargetPos(NoConfig, t), limit)) :
        t \in RootsTargetsOuter, limit \in LimitChainLimits}
    \cup {(1 :> ConfigSetTargetPos(NoConfig, <<0, SCALE, 0>>))
             @@ (3 :> ConfigSetChainLimit(ConfigSetTargetPos(NoConfig, t), limit)) :
             t \in RootsTargetsOuter, limit \in LimitChainLimits}
    \cup {(id :> ConfigSetTargetRot(NoConfig, QuarterTurnZ))
             @@ (3 :> ConfigSetChainLimit(ConfigSetTargetPos(NoConfig, t), limit)) :
             id \in {0, 2}, t \in RootsTargetsOuter, limit \in LimitChainLimits}

LimitGarbage == {VZero}

LimitNext ==
    \/ \E ids \in {{}, {2}} : SetSubRootIds(ids)
    \/ \E ids \in {{}, {1}} : SetSubBaseIds(ids)
    \/ \E configs \in LimitConfigs : UpdateJointConfigs(configs)
    \/ solves < MaxBranchSolves /\ \E segv \in BOOLEAN : Solve(segv)
    \/ SolveSteps(LimitGarbage)

LimitInit == InitSkeleton(0, RootsCalls)

SpecLimit == LimitInit /\ [][LimitNext]_vars

(***************************************************************************)
(* The order of the chains within executeFabrikPass.                       *)
(***************************************************************************)
\* the chain of key x ends where the chain of key y begins
chainFeeds(x, y) == x # y /\ innerEnd(x) = mChainMap[y][1]

\* the chains that the loop at pc has visited
chainsVisited == DOMAIN mChainMap \ todo

\* C21: within one pass, for chains X and Y where the inner end of X is the
\* outer end of Y, the inward loop visits X before Y and the outward loop
\* visits Y before X, whatever the ids of the joints.
C21_ChainsInDependencyOrder ==
    \A x \in DOMAIN mChainMap, y \in DOMAIN mChainMap :
        chainFeeds(x, y) =>
            /\ (pc = "inward" /\ y \in chainsVisited) => x \in chainsVisited
            /\ (pc = "outward" /\ x \in chainsVisited) => y \in chainsVisited

(***************************************************************************)
(* The inner end of a chain in the outward phase.                          *)
(***************************************************************************)
\* the world position, the world rotation and the local rotation of a Joint
placement(j) == <<j.mPos, j.mRot, j.mLocalRot>>

\* the chain that the outward loop visits next
nextOutward == mChainMap[SetMin(todo)]

\* C22: executeFabrikOutward on a chain of two or more joints changes
\* neither the world position, nor the world rotation, nor the local
\* rotation of the inner end of the chain, whatever the constraints of the
\* other joints of the chain.
C22_OutwardKeepsInnerEnd ==
    [][(pc = "outward" /\ todo # {} /\ Len(nextOutward) >= 2)
          => placement(joints'[nextOutward[Len(nextOutward)]])
                = placement(joints[nextOutward[Len(nextOutward)]])]_vars

(***************************************************************************)
(* The active roots.                                                       *)
(***************************************************************************)
\* the inner ends of the chains whose parent is absent or not active
unparentedInnerEnds ==
    {innerEnd(k) : k \in DOMAIN mChainMap}
        \cap {id \in DOMAIN joints :
                 joints[id].mParent = NULL \/ ~isActive(joints[joints[id].mParent])}

\* the root Joint when its Config gives it a local or a target rotation
rotatedRoot ==
    {id \in DOMAIN mJointConfigs \cap DOMAIN joints :
        id = mRootID /\ mJointConfigs[id].mFlags \cap MASK_ROT # {}}

\* C23: after rebuildAllChains the active roots are the inner ends of the
\* chains whose parent is absent or not active, and the root Joint when its
\* Config gives it a rotation.
C23_ActiveRootsWithRotatedRoot ==
    pc = "relax" => mActiveRoots = unparentedInnerEnds \cup rotatedRoot

\* the active roots are exactly the inner ends of the chains whose parent is
\* absent or not active
C23_ActiveRootsAreInnerEnds ==
    pc = "relax" => mActiveRoots = unparentedInnerEnds

\* the rotated root is an active root and the inner end of no chain, and the
\* inner end of a chain has an active parent
C23_RotatedRootBesideChain ==
    /\ pc = "relax"
    /\ rotatedRoot # {}
    /\ rotatedRoot \cap {innerEnd(k) : k \in DOMAIN mChainMap} = {}
    /\ \E k \in DOMAIN mChainMap : innerEnd(k) \notin mActiveRoots

(***************************************************************************)
(* The false sub-bases and the joins of rebuildAllChains.                  *)
(***************************************************************************)
\* the active children of a Joint
activeChildren(js, id) ==
    {js[id].mChildren[i] : i \in DOMAIN js[id].mChildren} \cap {c \in DOMAIN js : isActive(js[c])}

\* a false sub-base: no position target, not in the whitelist of sub-bases,
\* exactly one active child
falseSubBase(js, id) ==
    /\ ~hasPosTarget(js[id])
    /\ id \notin mSubBaseIds
    /\ Cardinality(activeChildren(js, id)) = 1

\* the chains of the map that end at the Joint id
chainsEndingAt(map, id) == {k \in DOMAIN map \ {id} : map[k][Len(map[k])] = id}

\* the donors: the chains whose outer end is a false sub-base and the inner
\* end of another chain
donorChains(js, map) ==
    {k \in DOMAIN map : falseSubBase(js, map[k][1]) /\ chainsEndingAt(map, map[k][1]) # {}}

\* the chain holds the Joints of the donor after its first, in their order,
\* right after the first Joint of the donor
splicedInto(chain, donor) ==
    \E i \in DOMAIN chain :
        /\ i + Len(donor) - 1 <= Len(chain)
        /\ \A n \in DOMAIN donor : chain[i + n - 1] = donor[n]
        /\ i > 1

\* C24: after rebuildAllChains no chain of the chain map has as its outer
\* end a false sub-base that is the inner end of another chain: every such
\* donor chain has been appended, without its first joint, to the chain that
\* ended at it, and is no longer in the map.
C24_FalseSubBasesJoined ==
    [][(pc = "condense" /\ pc' = "relax") =>
          /\ donorChains(joints', mChainMap') = {}
          /\ \A d \in donorChains(joints, mChainMap) :
                /\ d \notin DOMAIN mChainMap'
                /\ \E k \in DOMAIN mChainMap' : splicedInto(mChainMap'[k], mChainMap[d])]_vars

\* the rebuilt chain map holds a chain that a join has made
C24_ChainJoined ==
    /\ pc = "relax"
    /\ \E k \in DOMAIN mChainMap :
          \E i \in 2..(Len(mChainMap[k]) - 1) :
              Len(joints[mChainMap[k][i]].mChildren) > 1 /\ mSubBaseIds = {}

(***************************************************************************)
(* The chain limit of a Config.                                            *)
(***************************************************************************)
\* the keys of the chains seeded from a Joint whose Config has a position target
targetedChains ==
    {k \in DOMAIN mChainMap \cap DOMAIN mJointConfigs :
        CONFIG_FLAG_TARGET_POS \in mJointConfigs[k].mFlags}

\* C25: after rebuildAllChains the chain keyed by a targeted joint whose
\* Config has the chain limit n holds at most n joints.
C25_ChainWithinLimit ==
    pc = "relax" =>
        \A k \in targetedChains : Len(mChainMap[k]) <= mJointConfigs[k].mChainLimit

(***************************************************************************)
(* The passes of the loop of solve().                                      *)
(***************************************************************************)
\* the 0-based index of the pass that has just been measured
lastPass == loop - 1

\* solve() is about to test its loop condition after a pass
passMeasured == pc = "test" /\ loop >= 1

\* C26: the loop of solve() stops right after the pass of 0-based index i
\* if and only if i >= 3 and the error measured after that pass is at most
\* the acceptable error, or i = 15: a solve whose error is within the
\* tolerance after every pass runs the passes 0 to 3.
C26_StopsAfterFourPasses ==
    [][passMeasured =>
          (pc' = "idle" <=>
              \/ lastPass >= MIN_SOLVER_ITERATIONS - 1 /\ max_error <= mAcceptableError
              \/ lastPass = MAX_SOLVER_ITERATIONS - 1)]_vars

\* the loop stops right after the pass of index i if and only if i >= 4 and
\* the error is at most the acceptable error, or i = 15
C26_StopsAfterFivePasses ==
    [][passMeasured =>
          (pc' = "idle" <=>
              \/ lastPass >= MIN_SOLVER_ITERATIONS /\ max_error <= mAcceptableError
              \/ lastPass = MAX_SOLVER_ITERATIONS - 1)]_vars

\* solve() has returned after the pass of index 3, with an error within the
\* tolerance
C26_ReturnedAfterPassThree ==
    /\ solveReturned
    /\ loop = MIN_SOLVER_ITERATIONS
    /\ mLastError <= mAcceptableError

(***************************************************************************)
(* SpecAngles: compute_clamped_angle and compute_angle_limits are called   *)
(* on angles that are multiples of 45 degrees, up to two turns either way. *)
(* operand is <<angle, min_angle, max_angle>>; result is <<the clamped     *)
(* angle>> or <<min_angle, max_angle>> as compute_angle_limits leaves them.*)
(***************************************************************************)
\* the number of turns of the angles, either way
MaxTurns == 2

AngleStep == F_PI \div 4

Angles == {i * AngleStep : i \in (0 - 8 * MaxTurns)..(8 * MaxTurns)}

AnglesInit ==
    /\ SolverConstructed
    /\ operand \in Angles \X Angles \X Angles
    /\ result = NO_CALL
    /\ mConstraints = <<>>

\* min_angle and max_angle are aliased to the range [-PI, PI], in order
limitsAliased(min_angle, max_angle) ==
    0 - F_PI <= min_angle /\ min_angle <= max_angle /\ max_angle <= F_PI

\* a call of compute_clamped_angle with limits as it expects them
ComputeClampedAngle ==
    /\ operand # NO_CALL
    /\ result = NO_CALL
    /\ limitsAliased(operand[2], operand[3])
    /\ result' = <<compute_clamped_angle(operand[1], operand[2], operand[3])>>
    /\ UNCHANGED <<operand, mConstraints, joints, mSkeleton, mRootID, mJointConfigs, chainVars,
                   mSubBaseIds, mSubRootIds, mAcceptableError, mLastError, pc, loop, max_error,
                   todo, solves, solved_configs, configs_arg, something_changed>>

\* a call of compute_angle_limits
ComputeAngleLimits ==
    /\ operand # NO_CALL
    /\ result = NO_CALL
    /\ result' = compute_angle_limits(operand[2], operand[3])
    /\ UNCHANGED <<operand, mConstraints, joints, mSkeleton, mRootID, mJointConfigs, chainVars,
                   mSubBaseIds, mSubRootIds, mAcceptableError, mLastError, pc, loop, max_error,
                   todo, solves, solved_configs, configs_arg, something_changed>>

AnglesNext == ComputeClampedAngle \/ ComputeAngleLimits

SpecAngles == AnglesInit /\ [][AnglesNext]_vars

\* C27: for every angle a and limits with -pi <= min_angle <= max_angle <= pi,
\* compute_clamped_angle returns a value between min_angle and max_angle,
\* and returns a when a is between them already; angles on the invalid
\* bisector and at +pi or -pi included.
C27_ClampedWithinLimits ==
    Len(result) = 1 =>
        /\ operand[2] <= result[1] /\ result[1] <= operand[3]
        /\ (operand[2] <= operand[1] /\ operand[1] <= operand[3]) => result[1] = operand[1]

\* two angles are equal modulo 2 * pi
sameModuloTwoPi(a, b) == (a - b) % F_TWO_PI = 0

\* C28: for all input angles, compute_angle_limits leaves them with
\* -pi <= min <= max <= pi, each equal to one of the inputs modulo 2 * pi.
C28_LimitsAliased ==
    Len(result) = 2 =>
        /\ limitsAliased(result[1], result[2])
        /\ \A i \in 1..2 :
              sameModuloTwoPi(result[i], operand[2]) \/ sameModuloTwoPi(result[i], operand[3])

(***************************************************************************)
(* The same config map submitted again after solve().                      *)
(***************************************************************************)
\* solve() has returned and configs is the map that was submitted before it,
\* with no other map submitted since
solvedWith(configs) ==
    solveReturned /\ solved_configs[solves] = configs /\ configs_arg = configs

\* C29: for every config map c, in the sequence updateJointConfigs(c);
\* solve(); updateJointConfigs(c) the second updateJointConfigs returns
\* false, also when c gives position targets to a joint and to its parent.
C29_ResubmissionUnchanged ==
    [][\A configs \in BranchConfigs :
          (solvedWith(configs) /\ UpdateJointConfigs(configs))
              => something_changed' = UNCHANGED_CONFIGS]_vars

(***************************************************************************)
(* The joints that a phase of a pass updates.                              *)
(***************************************************************************)
\* the chains of which the Joint is a member other than the inner end
chainsUpdating(id) ==
    {k \in DOMAIN mChainMap :
        \E i \in 1..(Len(mChainMap[k]) - 1) : mChainMap[k][i] = id}

\* C30: after rebuildAllChains every joint is a member other than the inner
\* end of at most one chain, so that a phase of a pass updates it at most
\* once; also a joint with only a rotation target and a targeted descendant.
C30_UpdatedByOneChain ==
    pc = "relax" => \A id \in DOMAIN joints : Cardinality(chainsUpdating(id)) <= 1

====
